---- MODULE Spec2Model ----
(***************************************************************************)
(* The Brewin interpreter of src/interpreterv4.py as a state machine.      *)
(*                                                                         *)
(* The interpreter is a tree walker: run() looks up main and runs its      *)
(* statements one after the other; every statement is executed by the      *)
(* mutually recursive methods run_statement, do_assignment,                *)
(* evaluate_expression, do_func_call, run_func and run_if_statements over  *)
(* the two parallel stacks variable_scope_list and variable_alias_list.    *)
(* Each method is one RECURSIVE operator over an interpreter state record  *)
(* [scope, alias, heap, out, err, inp]; one action of the machine is one   *)
(* iteration of run_func's loop over the statements of main.               *)
(*                                                                         *)
(* Python dictionaries keep insertion order, so a dictionary is a sequence *)
(* of [k, v] entries.  Python object identity (Value objects of type OBJ   *)
(* and LAMBDA, function definition nodes) is a heap index.                 *)
(***************************************************************************)
EXTENDS Integers, Sequences, FiniteSets, TLC

VARIABLES
    ast,                  \* self.ast.dict['functions']
    pc,                   \* "start" | "main" | "done" | "error" | "hang"
    variable_scope_list,  \* self.variable_scope_list
    variable_alias_list,  \* self.variable_alias_list
    heap,                 \* the Python objects with identity reachable from the stacks
    output,               \* the lines handed to InterpreterBase.output
    error,                \* "" or the error that ended the run
    pos,                  \* the statement of main that run_func's loop runs next
    input                 \* the lines InterpreterBase.get_input has still to hand out

vars == <<ast, pc, variable_scope_list, variable_alias_list, heap, output, error, pos, input>>

-----------------------------------------------------------------------------
(* Bounds of the model.                                                    *)

MaxMainLen == 3     \* statements of main
MaxDepth == 4       \* nested user-function calls
MaxIter == 3        \* iterations of one while statement
MaxHeap == 12       \* Python objects with identity alive in one run
MaxFuncs == 3       \* functions of a program in the family of mains
MaxInt == 2         \* integer literals compared are 0..MaxInt
MaxNest == 2        \* blocks around a return statement

-----------------------------------------------------------------------------
(* Values (type_valuev1.Value): t is the Type, v the int payload (an Int,  *)
(* a Bool as 0/1, or the identity of an Object, Lambda or function node),  *)
(* s the text payload (a String, or the name of a Function's definition).  *)

Val(t, v, s) == [t |-> t, v |-> v, s |-> s]
IntV(i) == Val("int", i, "")
BoolV(b) == Val("bool", IF b THEN 1 ELSE 0, "")
StrV(s) == Val("string", 0, s)
NIL_VALUE == Val("nil", 0, "")
ObjV(id) == Val("obj", id, "")
LamV(id) == Val("lambda", id, "")
FuncV(id, name) == Val("func", id, name)
None == Val("None", 0, "")

(* A raw Python value as it stands in a literal node or as an arithmetic   *)
(* result: an int or a str.                                                *)
PyInt(i) == [k |-> "int", i |-> i, s |-> ""]
PyStr(s) == [k |-> "str", i |-> 0, s |-> s]

create_value(raw) ==
    IF raw.k = "str" /\ raw.s = "true" THEN BoolV(TRUE)
    ELSE IF raw.k = "str" /\ raw.s = "false" THEN BoolV(FALSE)
    ELSE IF raw.k = "str" /\ raw.s = "nil" THEN NIL_VALUE
    ELSE IF raw.k = "str" THEN StrV(raw.s)
    ELSE IntV(raw.i)

get_bool_value(b) == IF b THEN create_value(PyStr("true")) ELSE create_value(PyStr("false"))

get_bool_from_int(int_val) == int_val # 0

get_int_from_bool(bool_val) == IF bool_val THEN 1 ELSE 0

(* str(int) of Python: a leading minus sign for negative numbers.          *)
PyStrOfInt(i) == IF i < 0 THEN "-" \o ToString(0 - i) ELSE ToString(i)

Printable(val) == val.t \in {"int", "bool", "string", "nil"}

get_printable(val) ==
    IF val.t = "int" THEN PyStrOfInt(val.v)
    ELSE IF val.t = "bool" THEN (IF val.v = 1 THEN "true" ELSE "false")
    ELSE IF val.t = "string" THEN val.s
    ELSE "nil"

-----------------------------------------------------------------------------
(* Python dict, insertion ordered.                                         *)

Has(d, k) == \E i \in 1..Len(d) : d[i].k = k
Idx(d, k) == CHOOSE i \in 1..Len(d) : d[i].k = k
Get(d, k) == d[Idx(d, k)].v
Put(d, k, v) ==
    IF Has(d, k) THEN [d EXCEPT ![Idx(d, k)].v = v]
    ELSE Append(d, [k |-> k, v |-> v])
Keys(d) == {d[i].k : i \in 1..Len(d)}

(* list.pop() *)
Pop(l) == SubSeq(l, 1, Len(l) - 1)

(* The name Element.get('name') gives for a node that has none: None.      *)
NoName == "<None>"

-----------------------------------------------------------------------------
(* The interpreter state threaded through the methods.                     *)

St(functions_list, scope, alias, h, out, err) ==
    [ast |-> functions_list, scope |-> scope, alias |-> alias, heap |-> h, out |-> out,
     err |-> err, inp |-> <<>>]

(* InterpreterBase.error: the run ends with the first error raised.        *)
Raise(S, kind) == [S EXCEPT !.err = kind]

Res(S, val) == [st |-> S, val |-> val]

(* The Python objects: kind "obj" (fields is the field dict of an Object   *)
(* Value), "lambda" (fields is CAPTURED_VARS, node is LAMBDA_NODE), "node" *)
(* (a deep copy of a function definition node).                            *)
NoNode == [elem_type |-> "None"]
Cell(kind, fields, node) == [kind |-> kind, fields |-> fields, node |-> node]

-----------------------------------------------------------------------------
(* copy.deepcopy of a Value.  An Object or Lambda is copied with all that  *)
(* its fields reach (one memo per call, so sharing and cycles inside the   *)
(* copy are kept); a Function value gets a copy of its definition node.    *)
(* R is the set of Objects and Lambdas reached, F the set of function      *)
(* nodes their fields hold, n the size of the heap before the copy.        *)

Rank(x, S) == Cardinality({y \in S : y < x})

Nth(S, k) == CHOOSE x \in S : Rank(x, S) = k - 1

Refs(cell, types) ==
    {cell.fields[i].v.v : i \in {j \in 1..Len(cell.fields) : cell.fields[j].v.t \in types}}

Grow(h, ids) == ids \cup UNION {Refs(h[i], {"obj", "lambda"}) : i \in ids}

RECURSIVE Reach(_, _)
Reach(h, ids) == IF Grow(h, ids) = ids THEN ids ELSE Reach(h, Grow(h, ids))

CopyId(n, x, R, F) ==
    IF x \in R THEN n + 1 + Rank(x, R) ELSE n + Cardinality(R) + 1 + Rank(x, F)

CopyRef(n, v, R, F) ==
    IF v.t \in {"obj", "lambda", "func"} THEN [v EXCEPT !.v = CopyId(n, v.v, R, F)] ELSE v

CopyCell(n, c, R, F) ==
    [c EXCEPT !.fields =
        [i \in 1..Len(c.fields) |-> [k |-> c.fields[i].k, v |-> CopyRef(n, c.fields[i].v, R, F)]]]

CopyGraph(h, val, R, F) ==
    [heap |-> h \o [k \in 1..Cardinality(R) |-> CopyCell(Len(h), h[Nth(R, k)], R, F)]
                \o [k \in 1..Cardinality(F) |-> Cell("node", <<>>, NoNode)],
     val |-> CopyRef(Len(h), val, R, F)]

FuncRefs(h, R) == UNION {Refs(h[i], {"func"}) : i \in R}

CopyReached(h, val, R) == CopyGraph(h, val, R, FuncRefs(h, R))

deepcopy(h, val) ==
    IF val.t \in {"obj", "lambda"} THEN CopyReached(h, val, Reach(h, {val.v}))
    ELSE IF val.t = "func" THEN
        [heap |-> Append(h, Cell("node", <<>>, NoNode)), val |-> [val EXCEPT !.v = Len(h) + 1]]
    ELSE [heap |-> h, val |-> val]

-----------------------------------------------------------------------------
(* Names.  A dotted name obj.field is one string; '.' in name and          *)
(* name.split('.') are decided over the names the programs of the model    *)
(* use.                                                                    *)

VarNames == {"a", "b", "c", "o", "p", "q", "x", "y", "this"}
FieldNames == {"a", "f", "g", "m", "proto"}
Dot(o, f) == o \o "." \o f
DottedNames == {<<o, f>> : o \in VarNames, f \in FieldNames}
HasDot(name) == \E d \in DottedNames : Dot(d[1], d[2]) = name
Split(name) == CHOOSE d \in DottedNames : Dot(d[1], d[2]) = name


-----------------------------------------------------------------------------
(* validate_var_name: the index of the innermost frame binding var_name    *)
(* (frames are numbered from 1, so index i here is Python's i - 1); 0 is   *)
(* Python's None.                                                          *)

(* A lookup that sees the innermost frame only.                            *)
BindingInTopFrame(scope, var_name) == {i \in {Len(scope)} : Has(scope[i], var_name)}

Binding(scope, var_name) == {i \in 1..Len(scope) : Has(scope[i], var_name)}

Innermost(hits) == CHOOSE i \in hits : \A j \in hits : j <= i

validate_var_name(S, var_name, gentle) ==
    IF Binding(S.scope, var_name) # {} THEN Res(S, Innermost(Binding(S.scope, var_name)))
    ELSE IF ~gentle THEN Res(Raise(S, "NAME_ERROR"), 0)
    ELSE Res(S, 0)

(* A walk that looks at the object's own prototype and no further.         *)
ProtoOneHop(h, obj, field_name, seen) ==
    IF obj.t = "obj" /\ Has(h[obj.v].fields, field_name)
    THEN [r |-> "found", val |-> Get(h[obj.v].fields, field_name)]
    ELSE [r |-> "missing", val |-> None]

(* The prototype walk of a field or method read: the while (True) loop     *)
(* standing at the field dict of object id.  A walk that comes back to a   *)
(* dict it already left without the field never ends.                      *)
RECURSIVE ProtoWalk(_, _, _, _)

ProtoStep(h, obj, field_name, seen) ==
    IF obj.t # "obj" THEN [r |-> "missing", val |-> None]
    ELSE IF Has(h[obj.v].fields, field_name)
        THEN [r |-> "found", val |-> Get(h[obj.v].fields, field_name)]
    ELSE IF obj.v \in seen THEN [r |-> "hang", val |-> None]
    ELSE ProtoWalk(h, obj.v, field_name, seen \cup {obj.v})

ProtoWalk(h, id, field_name, seen) ==
    IF Has(h[id].fields, "proto")
    THEN ProtoStep(h, Get(h[id].fields, "proto"), field_name, seen)
    ELSE [r |-> "missing", val |-> None]

(* Lines 343-375: the field of an object, from its own dict or from the    *)
(* prototype walk.                                                         *)
FieldLookup(h, id, field_name) ==
    IF Has(h[id].fields, field_name)
    THEN [r |-> "found", val |-> Get(h[id].fields, field_name)]
    ELSE ProtoWalk(h, id, field_name, {id})

FieldResult(S, w) ==
    IF w.r = "found" THEN Res(S, w.val)
    ELSE IF w.r = "hang" THEN Res(Raise(S, "HANG"), None)
    ELSE Res(Raise(S, "NAME_ERROR"), None)

FieldOf(S, object, field_name) ==
    IF object.t # "obj" THEN Res(Raise(S, "TYPE_ERROR"), None)
    ELSE FieldResult(S, FieldLookup(S.heap, object.v, field_name))

DottedAt(S, found, obj_name, field_name) ==
    IF found.st.err # "" THEN Res(found.st, None)
    ELSE FieldOf(S, Get(S.scope[found.val], obj_name), field_name)

(* Lines 329-375: the value of obj_name.field_name.                        *)
EvalDotted(S, var_name) ==
    DottedAt(S, validate_var_name(S, Split(var_name)[1], FALSE),
             Split(var_name)[1], Split(var_name)[2])

(* Lines 396-400: the top-most variable of the alias chain of var_name.    *)
RECURSIVE TopMost(_, _, _)
TopMost(alias, top_most_var_name, search_scope_index) ==
    IF Has(alias[search_scope_index], top_most_var_name)
    THEN TopMost(alias, Get(alias[search_scope_index], top_most_var_name),
                 search_scope_index - 1)
    ELSE [name |-> top_most_var_name, idx |-> search_scope_index]

(* Lines 414-417: one frame of the downward cascade, item j onwards; names *)
(* collects the keys refreshed in this frame.                              *)
RECURSIVE CascadeFrame(_, _, _, _, _, _)
CascadeFrame(frame, alias_dict, j, referenced_var_names, new_value, names) ==
    IF j > Len(alias_dict) THEN [frame |-> frame, names |-> names]
    ELSE IF alias_dict[j].v \in referenced_var_names THEN
        CascadeFrame(Put(frame, alias_dict[j].k, new_value), alias_dict, j + 1,
                     referenced_var_names, new_value, names \cup {alias_dict[j].k})
    ELSE CascadeFrame(frame, alias_dict, j + 1, referenced_var_names, new_value, names)

(* Lines 411-419: refresh every frame above the root.                      *)
RECURSIVE CascadeDown(_, _, _, _, _)

CascadeNext(scope, alias, scope_index_update_ref, one, new_value) ==
    CascadeDown([scope EXCEPT ![scope_index_update_ref] = one.frame], alias,
                scope_index_update_ref + 1, one.names, new_value)

CascadeDown(scope, alias, scope_index_update_ref, referenced_var_names, new_value) ==
    IF scope_index_update_ref > Len(scope) THEN scope
    ELSE CascadeNext(scope, alias, scope_index_update_ref,
                     CascadeFrame(scope[scope_index_update_ref],
                                  alias[scope_index_update_ref], 1, referenced_var_names,
                                  new_value, {}),
                     new_value)

(* Lines 421-423: the variable takes the value its reference has after the *)
(* refresh.                                                                *)
Refreshed(S, cascaded, scope_index, var_name, ref_var_name) ==
    IF ~Has(cascaded[scope_index - 1], ref_var_name)
    THEN Res(Raise([S EXCEPT !.scope = cascaded], "PY_EXCEPTION"), None)
    ELSE Res([S EXCEPT !.scope =
                [cascaded EXCEPT ![scope_index] =
                    Put(@, var_name, Get(cascaded[scope_index - 1], ref_var_name))]],
             Get(cascaded[scope_index - 1], ref_var_name))

(* Lines 403-419: the refresh from the top-most variable, when it is bound *)
(* in the frame the chain ends in.                                         *)
ReadCascade(S, top, scope_index, var_name) ==
    IF ~Has(S.scope[top.idx], top.name)
    THEN Res(S, Get(S.scope[scope_index], var_name))
    ELSE Refreshed(S, CascadeDown(S.scope, S.alias, top.idx + 1, {top.name},
                                  Get(S.scope[top.idx], top.name)),
                   scope_index, var_name, Get(S.alias[scope_index], var_name))

ScopeVarAt(S, found, var_name) ==
    IF found.st.err # "" THEN Res(found.st, None)
    ELSE IF Has(S.alias[found.val], var_name)
        THEN ReadCascade(S, TopMost(S.alias, var_name, found.val), found.val, var_name)
    ELSE Res(S, Get(S.scope[found.val], var_name))

(* Lines 379-424: the value of a bare variable, with the read cascade.     *)
EvalScopeVar(S, var_name) == ScopeVarAt(S, validate_var_name(S, var_name, FALSE), var_name)

(* Lines 298-308: the lookup in the captured variables of the lambda being *)
(* run, and one level into the captured lambdas.                           *)
CapturedHit(h, captured_vars_dict, var_name) ==
    {i \in 1..Len(captured_vars_dict) :
        \/ captured_vars_dict[i].k = var_name
        \/ /\ captured_vars_dict[i].v.t = "lambda"
           /\ Has(h[captured_vars_dict[i].v.v].fields, var_name)}

First(hits) == CHOOSE j \in hits : \A l \in hits : j <= l

CapturedAt(h, entry, var_name) ==
    IF entry.k = var_name THEN entry.v ELSE Get(h[entry.v.v].fields, var_name)

CapturedValue(h, captured_vars_dict, var_name) ==
    CapturedAt(h, captured_vars_dict[First(CapturedHit(h, captured_vars_dict, var_name))],
               var_name)

(* Lines 310-327: a function name used as a value.                         *)
FuncMatches(functions_list, var_name) ==
    {i \in 1..Len(functions_list) : functions_list[i].name = var_name}

(* Lines 295-424: a 'var' node.  lambda_node is 0 for None, the identity   *)
(* of the lambda's [node, captured] list, or the negated identity when the *)
(* caller handed over the Lambda Value itself, which cannot be indexed.    *)
EvalVar(S, functions_list, var_name, lambda_node) ==
    IF lambda_node < 0 THEN Res(Raise(S, "PY_EXCEPTION"), None)
    ELSE IF lambda_node > 0 /\ CapturedHit(S.heap, S.heap[lambda_node].fields, var_name) # {}
        THEN Res(S, CapturedValue(S.heap, S.heap[lambda_node].fields, var_name))
    ELSE IF Cardinality(FuncMatches(functions_list, var_name)) = 1
        THEN Res(S, FuncV(0 - First(FuncMatches(functions_list, var_name)), var_name))
    ELSE IF Cardinality(FuncMatches(functions_list, var_name)) > 1
        THEN Res(Raise(S, "NAME_ERROR"), None)
    ELSE IF HasDot(var_name) THEN EvalDotted(S, var_name)
    ELSE EvalScopeVar(S, var_name)

-----------------------------------------------------------------------------
(* The nodes brewparse hands over: a record with elem_type and the fields  *)
(* of Element.dict.  An absent expression or else block is NoNode.         *)

PyBool(b) == [k |-> "bool", i |-> IF b THEN 1 ELSE 0, s |-> ""]
IntLit(i) == [elem_type |-> "int", val |-> PyInt(i)]
StrLit(s) == [elem_type |-> "string", val |-> PyStr(s)]
BoolLit(b) == [elem_type |-> "bool", val |-> PyBool(b)]
NilLit == [elem_type |-> "nil"]
New == [elem_type |-> "@"]
Var(name) == [elem_type |-> "var", name |-> name]
Bin(op, op1, op2) == [elem_type |-> op, op1 |-> op1, op2 |-> op2]
Un(op, op1) == [elem_type |-> op, op1 |-> op1]
FCall(name, args) == [elem_type |-> "fcall", name |-> name, args |-> args]
MCall(objref, name, args) ==
    [elem_type |-> "mcall", objref |-> objref, name |-> name, args |-> args]
Lambda(args, statements) == [elem_type |-> "lambda", args |-> args, statements |-> statements]
Arg(name) == [elem_type |-> "arg", name |-> name]
RefArg(name) == [elem_type |-> "refarg", name |-> name]
Assign(name, expression) == [elem_type |-> "=", name |-> name, expression |-> expression]
Return(expression) == [elem_type |-> "return", expression |-> expression]
NoElse == <<NoNode>>
If(condition, statements, else_statements) ==
    [elem_type |-> "if", condition |-> condition, statements |-> statements,
     else_statements |-> else_statements]
While(condition, statements) ==
    [elem_type |-> "while", condition |-> condition, statements |-> statements]
Func(name, args, statements) ==
    [elem_type |-> "func", name |-> name, args |-> args, statements |-> statements]
PrintCall(args) == FCall("print", args)

(* Element.get('name') *)
NodeName(node) == IF "name" \in DOMAIN node THEN node.name ELSE NoName

is_binary_op(node_elem_type) ==
    node_elem_type \in {"+", "-", "*", "/", "<", "<=", ">", ">="}

-----------------------------------------------------------------------------
(* The operators of evaluate_expression on evaluated operands.             *)

(* Python's // rounds towards minus infinity. *)
FloorDiv(a, b) == IF b > 0 THEN a \div b ELSE (0 - a) \div (0 - b)

(* Lines 431-461 *)
BinaryOp(S, elem_type, op1_val, op2_val) ==
    IF elem_type = "+" /\ op1_val.t = "string" /\ op2_val.t = "string"
        THEN Res(S, create_value(PyStr(op1_val.s \o op2_val.s)))
    ELSE LET a == IF op1_val.t = "bool" THEN IntV(get_int_from_bool(op1_val.v = 1)) ELSE op1_val
             b == IF op2_val.t = "bool" THEN IntV(get_int_from_bool(op2_val.v = 1)) ELSE op2_val
         IN  IF a.t # "int" \/ b.t # "int" THEN Res(Raise(S, "TYPE_ERROR"), None)
             ELSE IF elem_type = "+" THEN Res(S, create_value(PyInt(a.v + b.v)))
             ELSE IF elem_type = "-" THEN Res(S, create_value(PyInt(a.v - b.v)))
             ELSE IF elem_type = "*" THEN Res(S, create_value(PyInt(a.v * b.v)))
             ELSE IF elem_type = "/" THEN
                 (IF b.v = 0 THEN Res(Raise(S, "PY_EXCEPTION"), None)
                  ELSE Res(S, create_value(PyInt(FloorDiv(a.v, b.v)))))
             ELSE IF elem_type = "<" THEN Res(S, get_bool_value(a.v < b.v))
             ELSE IF elem_type = "<=" THEN Res(S, get_bool_value(a.v <= b.v))
             ELSE IF elem_type = ">" THEN Res(S, get_bool_value(a.v > b.v))
             ELSE Res(S, get_bool_value(a.v >= b.v))

(* Lines 465-473 *)
NegOp(S, op1_val) ==
    IF op1_val.t # "int" THEN Res(Raise(S, "TYPE_ERROR"), None)
    ELSE Res(S, create_value(PyInt(op1_val.v * (0 - 1))))

(* Lines 480-494 *)
LogicalOp(S, elem_type, op1_val, op2_val) ==
    LET a == IF op1_val.t = "int" THEN BoolV(get_bool_from_int(op1_val.v)) ELSE op1_val
        b == IF op2_val.t = "int" THEN BoolV(get_bool_from_int(op2_val.v)) ELSE op2_val
    IN  IF a.t # "bool" \/ b.t # "bool" THEN Res(Raise(S, "TYPE_ERROR"), None)
        ELSE IF elem_type = "&&" THEN Res(S, get_bool_value(a.v = 1 /\ b.v = 1))
        ELSE Res(S, get_bool_value(a.v = 1 \/ b.v = 1))

(* Lines 500-509 *)
NotOp(S, op1_val) ==
    LET a == IF op1_val.t = "int" THEN BoolV(get_bool_from_int(op1_val.v)) ELSE op1_val
    IN  IF a.t # "bool" THEN Res(Raise(S, "TYPE_ERROR"), None)
        ELSE Res(S, get_bool_value(~(a.v = 1)))

(* Lines 516-564: the Python truth value the comparison computes for ==;   *)
(* each branch hands get_bool_value this value for == and its negation for *)
(* !=.  op1_val is op2_val is the identity of the two Value objects, and   *)
(* op1_val.v is op2_val.v that of two function definition nodes.           *)
(* Equality of type and content, with neither identity nor coercion.       *)
SameShape(op1_val, op2_val) ==
    op1_val.t = op2_val.t /\ (op1_val.t \in {"obj", "lambda", "func", "nil"} \/ op1_val = op2_val)

SameOperands(op1_val, op2_val) ==
    IF op1_val.t = "lambda" /\ op2_val.t = "lambda" THEN op1_val.v = op2_val.v
    ELSE IF op1_val.t = "obj" /\ op2_val.t = "obj" THEN op1_val.v = op2_val.v
    ELSE IF op1_val.t = "string" /\ op2_val.t = "string" THEN op1_val.s = op2_val.s
    ELSE IF \/ op1_val.t = "int" /\ op2_val.t = "int"
            \/ op1_val.t = "bool" /\ op2_val.t = "bool" THEN op1_val.v = op2_val.v
    ELSE IF op1_val.t = "int" /\ op2_val.t = "bool"
        THEN get_bool_from_int(op1_val.v) = (op2_val.v = 1)
    ELSE IF op1_val.t = "bool" /\ op2_val.t = "int"
        THEN (op1_val.v = 1) = get_bool_from_int(op2_val.v)
    ELSE IF op1_val.t = "nil" /\ op2_val.t = "nil" THEN TRUE
    ELSE IF op1_val.t = "func" /\ op2_val.t = "func" THEN op1_val.v = op2_val.v
    ELSE FALSE

EqualityOp(elem_type, op1_val, op2_val) ==
    IF elem_type = "==" THEN get_bool_value(SameOperands(op1_val, op2_val))
    ELSE get_bool_value(~SameOperands(op1_val, op2_val))


-----------------------------------------------------------------------------
(* Lines 616-630: the captured variables of a lambda literal.  The frames  *)
(* are visited from the innermost to the outermost and every visited       *)
(* binding is stored under its name.                                       *)

RECURSIVE CaptureFrame(_, _, _, _, _)

CaptureOne(c, captured_vars, curr_scope_dict, j, formal_param_name_list) ==
    CaptureFrame(c.heap, Put(captured_vars, curr_scope_dict[j].k, c.val), curr_scope_dict,
                 j + 1, formal_param_name_list)

CaptureFrame(h, captured_vars, curr_scope_dict, j, formal_param_name_list) ==
    IF j > Len(curr_scope_dict) THEN [heap |-> h, captured |-> captured_vars]
    ELSE IF /\ curr_scope_dict[j].k \notin formal_param_name_list
            /\ curr_scope_dict[j].v.t # "obj"
            /\ curr_scope_dict[j].v.t # "lambda"
        THEN CaptureOne(deepcopy(h, curr_scope_dict[j].v), captured_vars, curr_scope_dict, j,
                        formal_param_name_list)
    ELSE CaptureFrame(h, captured_vars, curr_scope_dict, j + 1, formal_param_name_list)

RECURSIVE CaptureAll(_, _, _, _, _)

CaptureNext(one, scope, i, formal_param_name_list) ==
    CaptureAll(one.heap, one.captured, scope, i - 1, formal_param_name_list)

CaptureAll(h, captured_vars, scope, i, formal_param_name_list) ==
    IF i < 1 THEN [heap |-> h, captured |-> captured_vars]
    ELSE CaptureNext(CaptureFrame(h, captured_vars, scope[i], 1, formal_param_name_list),
                     scope, i, formal_param_name_list)

NewLambda(S, c, source_node) ==
    Res([S EXCEPT !.heap = Append(c.heap, Cell("lambda", c.captured, source_node))],
        LamV(Len(c.heap) + 1))

EvalLambda(S, source_node) ==
    NewLambda(S,
              CaptureAll(S.heap, <<>>, S.scope, Len(S.scope),
                         {source_node.args[i].name : i \in 1..Len(source_node.args)}),
              source_node)

-----------------------------------------------------------------------------
(* The write-through stopped after one frame.                              *)
WriteOneHop(scope, alias, closest_scope_index, target_var_name, resulting_value) ==
    IF Has(alias[closest_scope_index], target_var_name) THEN
        [scope EXCEPT ![closest_scope_index - 1] =
            Put(@, Get(alias[closest_scope_index], target_var_name), resulting_value)]
    ELSE scope

(* Lines 233-244: the write through the reference of an aliased variable,  *)
(* one frame down at a time.                                               *)
RECURSIVE WriteCascade(_, _, _, _, _)
WriteCascade(scope, alias, closest_scope_index, target_var_name, resulting_value) ==
    IF Has(alias[closest_scope_index], target_var_name) THEN
        WriteCascade([scope EXCEPT ![closest_scope_index - 1] =
                         Put(@, Get(alias[closest_scope_index], target_var_name),
                             resulting_value)],
                     alias, closest_scope_index - 1,
                     Get(alias[closest_scope_index], target_var_name), resulting_value)
    ELSE scope

AssignAt(S, closest_scope_index, target_var_name, resulting_value) ==
    IF closest_scope_index = 0
    THEN [S EXCEPT !.scope[Len(S.scope)] = Put(@, target_var_name, resulting_value)]
    ELSE [S EXCEPT !.scope =
            WriteCascade([S.scope EXCEPT ![closest_scope_index] =
                             Put(@, target_var_name, resulting_value)],
                         S.alias, closest_scope_index, target_var_name, resulting_value)]

(* Lines 212-244: assignment to a bare variable, with the write cascade.   *)
AssignVar(S, target_var_name, resulting_value) ==
    AssignAt(S, validate_var_name(S, target_var_name, TRUE).val, target_var_name,
             resulting_value)

AssignField(S, object, field_name, resulting_value) ==
    IF object.t # "obj" THEN Raise(S, "TYPE_ERROR")
    ELSE [S EXCEPT !.heap[object.v].fields = Put(@, field_name, resulting_value)]

AssignDottedAt(S, found, obj_name, field_name, resulting_value) ==
    IF found.st.err # "" THEN found.st
    ELSE AssignField(S, Get(S.scope[found.val], obj_name), field_name, resulting_value)

(* A field assignment that takes any value for proto.                      *)
AssignSplitAnyProto(S, obj_name, field_name, resulting_value) ==
    AssignDottedAt(S, validate_var_name(S, obj_name, FALSE), obj_name, field_name,
                   resulting_value)

AssignSplit(S, obj_name, field_name, resulting_value) ==
    IF field_name = "proto" /\ resulting_value.t # "obj" /\ resulting_value.t # "nil"
    THEN Raise(S, "TYPE_ERROR")
    ELSE AssignDottedAt(S, validate_var_name(S, obj_name, FALSE), obj_name, field_name,
                        resulting_value)

(* Lines 177-210: assignment to obj_name.field_name.                       *)
AssignDotted(S, target_var_name, resulting_value) ==
    AssignSplit(S, Split(target_var_name)[1], Split(target_var_name)[2], resulting_value)

-----------------------------------------------------------------------------
(* The call target do_func_call works out before it runs the function:     *)
(* function_elem (NoNode for None), the inner lambda_node and the object   *)
(* of a method call (None for None).                                       *)

Target(S, function_elem, lambda_node, object) ==
    [st |-> S, fe |-> function_elem, lam |-> lambda_node, object |-> object]

(* A match on the name alone.                                              *)
GlobalHitsByName(functions_list, name, nargs) ==
    {i \in 1..Len(functions_list) : functions_list[i].name = name}

GlobalHits(functions_list, name, nargs) ==
    {i \in 1..Len(functions_list) :
        functions_list[i].name = name /\ Len(functions_list[i].args) = nargs}

(* Lines 674-680: the last definition with the name and the arity.         *)
ResolveGlobal(functions_list, name, nargs) ==
    IF GlobalHits(functions_list, name, nargs) = {} THEN NoNode
    ELSE functions_list[Innermost(GlobalHits(functions_list, name, nargs))]

Named(functions_list, name) == {i \in 1..Len(functions_list) : functions_list[i].name = name}

(* Lines 731-742 and 773-784: the definition a Function value names.       *)
ResolveFuncValue(S, var_value, nargs, function_elem, lambda_node, object) ==
    IF \E i \in Named(S.ast, var_value.s) : Len(S.ast[i].args) # nargs
    THEN Target(Raise(S, "TYPE_ERROR"), function_elem, lambda_node, object)
    ELSE IF Named(S.ast, var_value.s) = {} THEN Target(S, function_elem, lambda_node, object)
    ELSE Target(S, S.ast[Innermost(Named(S.ast, var_value.s))], lambda_node, object)

(* Lines 744-764: the method found is a Function, a Lambda or neither.     *)
MethodValue(S, w, nargs, function_elem, object) ==
    IF w.r = "hang" THEN Target(Raise(S, "HANG"), function_elem, 0, object)
    ELSE IF w.r = "missing" THEN Target(Raise(S, "NAME_ERROR"), function_elem, 0, object)
    ELSE IF w.val.t = "func" THEN ResolveFuncValue(S, w.val, nargs, function_elem, 0, object)
    ELSE IF w.val.t = "lambda" THEN
        (IF Len(S.heap[w.val.v].node.args) # nargs
         THEN Target(Raise(S, "NAME_ERROR"), S.heap[w.val.v].node, w.val.v, object)
         ELSE Target(S, S.heap[w.val.v].node, w.val.v, object))
    ELSE Target(Raise(S, "TYPE_ERROR"), function_elem, 0, object)

MethodOf(S, object, statement_node, function_elem) ==
    IF object.t # "obj" THEN Target(Raise(S, "TYPE_ERROR"), function_elem, 0, None)
    ELSE MethodValue(S, FieldLookup(S.heap, object.v, statement_node.name),
                     Len(statement_node.args), function_elem, object)

MethodAt(S, found, statement_node, function_elem) ==
    IF found.st.err # "" THEN Target(found.st, function_elem, 0, None)
    ELSE MethodOf(S, Get(S.scope[found.val], statement_node.objref), statement_node,
                  function_elem)

(* Lines 686-764: the target of a method call.                             *)
MethodTarget(S, statement_node, function_elem) ==
    MethodAt(S, validate_var_name(S, statement_node.objref, FALSE), statement_node,
             function_elem)

(* Lines 786-795: the lambda the enclosing lambda captured under the name. *)
CapturedLambda(S, lambda_node, object) ==
    IF lambda_node.t # "lambda" THEN Target(Raise(S, "PY_EXCEPTION"), NoNode, 0, object)
    ELSE Target(S, S.heap[lambda_node.v].node, 0 - lambda_node.v, object)

VariableValue(S, var_value, name, nargs, outer_lambda_node, object) ==
    IF var_value.t = "func" THEN ResolveFuncValue(S, var_value, nargs, NoNode, 0, object)
    ELSE IF outer_lambda_node < 0 THEN Target(Raise(S, "PY_EXCEPTION"), NoNode, 0, object)
    ELSE IF /\ outer_lambda_node > 0
            /\ var_value.t = "lambda"
            /\ Has(S.heap[outer_lambda_node].fields, name)
        THEN CapturedLambda(S, Get(S.heap[outer_lambda_node].fields, name), object)
    ELSE IF var_value.t = "lambda" THEN
        (IF Len(S.heap[var_value.v].node.args) # nargs
         THEN Target(Raise(S, "TYPE_ERROR"), S.heap[var_value.v].node, var_value.v, object)
         ELSE Target(S, S.heap[var_value.v].node, var_value.v, object))
    ELSE Target(Raise(S, "TYPE_ERROR"), NoNode, 0, object)

VariableAt(S, found, statement_node, outer_lambda_node, object) ==
    IF found.st.err # "" THEN Target(found.st, NoNode, 0, object)
    ELSE VariableValue(S, Get(S.scope[found.val], statement_node.name), statement_node.name,
                       Len(statement_node.args), outer_lambda_node, object)

(* Lines 767-817: the target held by a variable.                           *)
VariableTarget(S, statement_node, outer_lambda_node, object) ==
    VariableAt(S, validate_var_name(S, statement_node.name, FALSE), statement_node,
               outer_lambda_node, object)

-----------------------------------------------------------------------------
(* The methods of the interpreter.  They call one another as self.method;  *)
(* self_method is that call.  d is the number of nested calls still        *)
(* allowed; a call beyond it ends the run with "BOUND", as does a while    *)
(* statement beyond MaxIter iterations.                                    *)

RECURSIVE self(_, _, _)

self_evaluate_expression(S, source_node, lambda_node, d) ==
    self("evaluate_expression", S, <<source_node, lambda_node, d>>)

self_do_assignment(S, statement_node, lambda_node, d) ==
    self("do_assignment", S, <<statement_node, lambda_node, d>>)

self_PrintArgs(S, args, i, outer_lambda_node, final_output, d) ==
    self("PrintArgs", S, <<args, i, outer_lambda_node, final_output, d>>)

self_BindArgs(S, args_val_list, args_name_list, i, scope_index, d) ==
    self("BindArgs", S, <<args_val_list, args_name_list, i, scope_index, d>>)

self_do_func_call(S, statement_node, outer_lambda_node, d) ==
    self("do_func_call", S, <<statement_node, outer_lambda_node, d>>)

self_RunStatements(S, statements, i, lambda_node, d) ==
    self("RunStatements", S, <<statements, i, lambda_node, d>>)

self_RunWhile(S, statement_node, n, d) ==
    self("RunWhile", S, <<statement_node, n, d>>)

(* Lines 427-564: the operator applied to the two evaluated operands.      *)
Operate(elem_type, op1_val, r2) ==
    IF r2.st.err # "" THEN r2
    ELSE IF is_binary_op(elem_type) THEN BinaryOp(r2.st, elem_type, op1_val, r2.val)
    ELSE IF elem_type \in {"&&", "||"} THEN LogicalOp(r2.st, elem_type, op1_val, r2.val)
    ELSE Res(r2.st, EqualityOp(elem_type, op1_val, r2.val))

(* Operands with a short circuit: op2 is left alone when op1 decides the   *)
(* result of && or ||.                                                     *)
SecondOperandShortCircuit(r1, source_node, lambda_node, d) ==
    IF r1.st.err # "" THEN r1
    ELSE IF source_node.elem_type = "&&" /\ r1.val \in {BoolV(FALSE), IntV(0)}
        THEN Res(r1.st, BoolV(FALSE))
    ELSE IF source_node.elem_type = "||" /\ r1.val \in {BoolV(TRUE), IntV(1)}
        THEN Res(r1.st, BoolV(TRUE))
    ELSE Operate(source_node.elem_type, r1.val,
                 self_evaluate_expression(r1.st, source_node.op2, lambda_node, d))

(* op2 is evaluated after op1, in the state op1 left.                      *)
SecondOperand(r1, source_node, lambda_node, d) ==
    IF r1.st.err # "" THEN r1
    ELSE Operate(source_node.elem_type, r1.val,
                 self_evaluate_expression(r1.st, source_node.op2, lambda_node, d))

(* Lines 464-473 and 497-509 *)
UnaryOperate(elem_type, r1) ==
    IF r1.st.err # "" THEN r1
    ELSE IF elem_type = "neg" THEN NegOp(r1.st, r1.val)
    ELSE NotOp(r1.st, r1.val)

(* str.isdigit() and int() of Python on a line of input: the lines given   *)
(* are the decimal numerals of 0..MaxInt and lines that hold no digit.     *)
isdigit(user_input) == \E i \in 0..MaxInt : ToString(i) = user_input

int(user_input) == CHOOSE i \in 0..MaxInt : ToString(i) = user_input

(* InterpreterBase.get_input: the next line of the input.  A run that      *)
(* asks for more lines than it was given is not followed further.          *)
get_input(S) ==
    IF S.inp = <<>> THEN [st |-> Raise(S, "BOUND"), user_input |-> ""]
    ELSE [st |-> [S EXCEPT !.inp = Tail(@)], user_input |-> Head(S.inp)]

(* Lines 579-585 and 600-601: the line read becomes the value.             *)
InputValue(name, g) ==
    IF g.st.err # "" THEN Res(g.st, None)
    ELSE IF name = "inputs" THEN Res(g.st, create_value(PyStr(g.user_input)))
    ELSE IF ~isdigit(g.user_input) THEN Res(Raise(g.st, "TYPE_ERROR"), None)
    ELSE Res(g.st, create_value(PyInt(int(g.user_input))))

(* Lines 576-577 and 597-598: the prompt is put out before the read; for a *)
(* value get_printable has no text for, the line put out is Python's None. *)
PromptText(val) == IF Printable(val) THEN get_printable(val) ELSE "None"

Prompted(name, r) ==
    IF r.st.err # "" THEN r
    ELSE InputValue(name, get_input([r.st EXCEPT !.out = Append(@, PromptText(r.val))]))

(* Lines 566-601: inputi and inputs.                                       *)
Input(S, source_node, lambda_node, d) ==
    IF Len(source_node.args) > 1 THEN Res(Raise(S, "NAME_ERROR"), None)
    ELSE IF Len(source_node.args) = 1
        THEN Prompted(source_node.name,
                      self_evaluate_expression(S, source_node.args[1], lambda_node, d))
    ELSE InputValue(source_node.name, get_input(S))

(* Lines 272-635 *)
evaluate_expression(S, source_node, lambda_node, d) ==
    IF source_node.elem_type = "@" THEN
        Res([S EXCEPT !.heap = Append(@, Cell("obj", <<>>, NoNode))], ObjV(Len(S.heap) + 1))
    ELSE IF source_node.elem_type \in {"int", "string"} THEN
        (IF source_node.elem_type = "string" /\ source_node.val.s \in {"true", "false", "nil"}
         THEN Res(S, StrV(source_node.val.s))
         ELSE Res(S, create_value(source_node.val)))
    ELSE IF source_node.elem_type = "bool" THEN Res(S, get_bool_value(source_node.val.i = 1))
    ELSE IF source_node.elem_type = "nil" THEN Res(S, create_value(PyStr("nil")))
    ELSE IF source_node.elem_type = "var"
        THEN EvalVar(S, S.ast, source_node.name, lambda_node)
    ELSE IF \/ is_binary_op(source_node.elem_type)
            \/ source_node.elem_type \in {"&&", "||", "==", "!="} THEN
        SecondOperand(self_evaluate_expression(S, source_node.op1, lambda_node, d),
                      source_node, lambda_node, d)
    ELSE IF source_node.elem_type \in {"neg", "!"} THEN
        UnaryOperate(source_node.elem_type,
                     self_evaluate_expression(S, source_node.op1, lambda_node, d))
    ELSE IF source_node.elem_type \in {"fcall", "mcall"}
            /\ source_node.name \in {"inputi", "inputs"}
        THEN Input(S, source_node, lambda_node, d)
    ELSE IF source_node.elem_type \in {"fcall", "mcall"}
        THEN self_do_func_call(S, source_node, 0, d)
    ELSE IF source_node.elem_type = "lambda" THEN EvalLambda(S, source_node)
    ELSE Res(Raise(S, "NAME_ERROR"), None)

(* Lines 167-244: the evaluated value goes to a captured variable of the   *)
(* lambda being run, to a field, or to a variable of the scope stack.      *)
Assigned(r, target_var_name, lambda_node) ==
    IF r.st.err # "" THEN r.st
    ELSE IF lambda_node < 0 THEN Raise(r.st, "PY_EXCEPTION")
    ELSE IF lambda_node > 0 /\ Has(r.st.heap[lambda_node].fields, target_var_name)
        THEN [r.st EXCEPT !.heap[lambda_node].fields = Put(@, target_var_name, r.val)]
    ELSE IF HasDot(target_var_name) THEN AssignDotted(r.st, target_var_name, r.val)
    ELSE AssignVar(r.st, target_var_name, r.val)

(* Lines 164-244 *)
do_assignment(S, statement_node, lambda_node, d) ==
    Assigned(self_evaluate_expression(S, statement_node.expression, lambda_node, d),
             statement_node.name, lambda_node)

PrintNext(r, args, i, outer_lambda_node, final_output, d) ==
    IF r.st.err # "" THEN Res(r.st, None)
    ELSE IF ~Printable(r.val) THEN Res(Raise(r.st, "PY_EXCEPTION"), None)
    ELSE self_PrintArgs(r.st, args, i + 1, outer_lambda_node,
                        final_output \o get_printable(r.val), d)

(* Lines 665-671: print.                                                   *)
PrintArgs(S, args, i, outer_lambda_node, final_output, d) ==
    IF i > Len(args) THEN Res([S EXCEPT !.out = Append(@, final_output)], NIL_VALUE)
    ELSE PrintNext(self_evaluate_expression(S, args[i], outer_lambda_node, d), args, i,
                   outer_lambda_node, final_output, d)

(* Every Object or Lambda argument copied, whatever the parameter.         *)
CopyEveryArg(h, val, formal) ==
    IF val.t \in {"lambda", "obj"}
    THEN deepcopy(h, val)
    ELSE [heap |-> h, val |-> val]

(* Lines 835-841: an Object or Lambda handed to a value parameter is       *)
(* copied.                                                                 *)
CopyArg(h, val, formal) ==
    IF val.t \in {"lambda", "obj"} /\ formal.elem_type # "refarg"
    THEN deepcopy(h, val)
    ELSE [heap |-> h, val |-> val]

(* Lines 833-846: the parameter is bound in the callee's frame, and its    *)
(* reference recorded when it is a ref parameter.                          *)
BindOne(S, c, scope_index, formal, actual) ==
    IF formal.elem_type = "refarg"
    THEN [S EXCEPT !.heap = c.heap,
                   !.scope[scope_index] = Put(@, NodeName(formal), c.val),
                   !.alias[scope_index] = Put(@, NodeName(formal), NodeName(actual))]
    ELSE [S EXCEPT !.heap = c.heap,
                   !.scope[scope_index] = Put(@, NodeName(formal), c.val)]

BindNext(r, args_val_list, args_name_list, i, scope_index, d) ==
    IF r.st.err # "" THEN r.st
    ELSE IF i > Len(args_name_list) THEN Raise(r.st, "PY_EXCEPTION")
    ELSE self_BindArgs(BindOne(r.st, CopyArg(r.st.heap, r.val, args_name_list[i]),
                               scope_index, args_name_list[i], args_val_list[i]),
                       args_val_list, args_name_list, i + 1, scope_index, d)

(* Lines 829-846: the parameters, bound one after the other in the frame   *)
(* that is already pushed.                                                 *)
BindArgs(S, args_val_list, args_name_list, i, scope_index, d) ==
    IF i > Len(args_val_list) THEN S
    ELSE BindNext(self_evaluate_expression(S, args_val_list[i], 0, d), args_val_list,
                  args_name_list, i, scope_index, d)

(* Lines 849-851: a method call binds this to its object.                  *)
BindThis(S, scope_index, object, statement_node) ==
    IF object # None
    THEN [S EXCEPT !.scope[scope_index] = Put(@, "this", object),
                   !.alias[scope_index] = Put(@, "this", statement_node.objref)]
    ELSE S

(* Lines 60-67: both stacks are popped, and Nil stands for no value.       *)
FuncReturn(r) ==
    IF r.st.err # "" THEN r
    ELSE Res([r.st EXCEPT !.scope = Pop(@), !.alias = Pop(@)],
             IF r.val # None THEN r.val ELSE NIL_VALUE)

(* Lines 54-67 *)
run_func(S, func_node, lambda_node, d) ==
    FuncReturn(self_RunStatements(S, func_node.statements, Len(func_node.statements), lambda_node, d))

(* Lines 849-858 *)
RunTarget(bound, scope_index, t, statement_node, d) ==
    IF bound.err # "" THEN Res(bound, None)
    ELSE run_func(BindThis(bound, scope_index, t.object, statement_node), t.fe, t.lam, d - 1)

(* Lines 819-846: no target is a NAME_ERROR; otherwise a frame and an      *)
(* alias entry are pushed and the parameters bound.                        *)
EnterTarget(t, statement_node, d) ==
    CASE t.st.err # "" -> Res(t.st, None)
      [] t.fe = NoNode -> Res(Raise(t.st, "NAME_ERROR"), None)
      [] d = 0 -> Res(Raise(t.st, "BOUND"), None)
      [] OTHER -> RunTarget(self_BindArgs([t.st EXCEPT !.scope = Append(@, <<>>),
                                                       !.alias = Append(@, <<>>)],
                                          statement_node.args, t.fe.args, 1,
                                          Len(t.st.scope) + 1, d - 1),
                            Len(t.st.scope) + 1, t, statement_node, d)

(* Lines 767: a variable is looked at only when nothing else gave a        *)
(* function.                                                               *)
SecondTarget(t, statement_node, outer_lambda_node, d) ==
    CASE t.st.err # "" -> Res(t.st, None)
      [] t.fe = NoNode -> EnterTarget(VariableTarget(t.st, statement_node, outer_lambda_node,
                                                     t.object),
                                      statement_node, d)
      [] OTHER -> EnterTarget(t, statement_node, d)

(* Lines 674-764 *)
FirstTarget(S, statement_node, function_elem) ==
    IF statement_node.elem_type = "mcall"
    THEN MethodTarget(S, statement_node, function_elem)
    ELSE Target(S, function_elem, 0, None)

(* Lines 663-858 *)
do_func_call(S, statement_node, outer_lambda_node, d) ==
    IF statement_node.name = "print"
    THEN self_PrintArgs(S, statement_node.args, 1, outer_lambda_node, "", d)
    ELSE SecondTarget(FirstTarget(S, statement_node,
                                  ResolveGlobal(S.ast, statement_node.name,
                                                Len(statement_node.args))),
                      statement_node, outer_lambda_node, d)

(* A block that keeps the value of a return to itself.                     *)
BlockSwallowsReturn(r) ==
    IF r.st.err # "" THEN r
    ELSE Res([r.st EXCEPT !.scope = Pop(@)], None)

(* Lines 45-51: the scope stack is popped.                                 *)
BlockReturn(r) ==
    IF r.st.err # "" THEN r
    ELSE Res([r.st EXCEPT !.scope = Pop(@)], r.val)

(* Lines 39-51 *)
run_if_statements(S, statements, d) ==
    BlockReturn(self_RunStatements(S, statements, Len(statements), 0, d))

(* Lines 83-92, 111-119, 149-157: a condition, as a Python bool in val.v.  *)
Condition(r) ==
    IF r.st.err # "" THEN r
    ELSE IF r.val.t = "int" THEN Res(r.st, BoolV(get_bool_from_int(r.val.v)))
    ELSE IF r.val.t # "bool" THEN Res(Raise(r.st, "TYPE_ERROR"), None)
    ELSE r

(* Lines 125, 127: a block pushes a frame and an alias entry.              *)
PushBlock(S) == [S EXCEPT !.scope = Append(@, <<>>), !.alias = Append(@, <<>>)]

(* Lines 134-157: after the body, the frame is popped and the condition    *)
(* evaluated again.                                                        *)
WhileNext(r, statement_node, n, d) ==
    IF r.st.err # "" THEN r
    ELSE IF r.val # None THEN Res([r.st EXCEPT !.scope = Pop(@)], r.val)
    ELSE self_RunWhile([r.st EXCEPT !.scope = Pop(@)], statement_node, n - 1, d)

WhileBody(c, statement_node, n, d) ==
    IF c.st.err # "" THEN c
    ELSE IF c.val.v # 1 THEN Res(c.st, None)
    ELSE IF n = 0 THEN Res(Raise(c.st, "BOUND"), None)
    ELSE WhileNext(self_RunStatements(PushBlock(c.st), statement_node.statements,
                                       Len(statement_node.statements), 0, d),
                   statement_node, n, d)

(* Lines 110-157: the while statement from an evaluation of its condition  *)
(* on, with n iterations left.                                             *)
RunWhile(S, statement_node, n, d) ==
    WhileBody(Condition(self_evaluate_expression(S, statement_node.condition, 0, d)),
              statement_node, n, d)

(* Lines 94-108: the branch of an if statement.                            *)
IfBranch(c, statement_node, d) ==
    IF c.st.err # "" THEN c
    ELSE IF c.val.v = 1
        THEN run_if_statements(PushBlock(c.st), statement_node.statements, d)
    ELSE IF statement_node.else_statements # NoElse
        THEN run_if_statements(PushBlock(c.st), statement_node.else_statements, d)
    ELSE Res(c.st, None)

(* Lines 77-80: the value returned is a deep copy.                         *)
ReturnCopy(S, c) == Res([S EXCEPT !.heap = c.heap], c.val)

ReturnValue(r) ==
    IF r.st.err # "" THEN r
    ELSE ReturnCopy(r.st, deepcopy(r.st.heap, r.val))

(* Lines 71-159 *)
run_statement(S, statement_node, lambda_node, d) ==
    CASE statement_node.elem_type = "="
           -> Res(self_do_assignment(S, statement_node, lambda_node, d), None)
      [] statement_node.elem_type \in {"fcall", "mcall"}
           -> [st |-> do_func_call(S, statement_node, lambda_node, d).st, val |-> None]
      [] statement_node.elem_type = "return"
           -> IF statement_node.expression = NoNode THEN Res(S, NIL_VALUE)
              ELSE ReturnValue(self_evaluate_expression(S, statement_node.expression,
                                                        lambda_node, d))
      [] statement_node.elem_type = "if"
           -> IfBranch(Condition(self_evaluate_expression(S, statement_node.condition, 0, d)),
                       statement_node, d)
      [] statement_node.elem_type = "while" -> self_RunWhile(S, statement_node, MaxIter, d)
      [] OTHER -> Res(S, None)

StatementsNext(r, statements, i, lambda_node, d) ==
    IF r.st.err # "" \/ r.val # None THEN r
    ELSE run_statement(r.st, statements[i], lambda_node, d)

(* The for loops over a statement list of run_func (lines 58-62),          *)
(* run_if_statements (43-47) and the while body (132-136), through the     *)
(* first i statements: the loop stops at the first statement that hands    *)
(* back a value, so the statements after it leave the result as it is.     *)
RunStatements(S, statements, i, lambda_node, d) ==
    IF i = 0 THEN Res(S, None)
    ELSE StatementsNext(self_RunStatements(S, statements, i - 1, lambda_node, d), statements, i,
                        lambda_node, d)

(* self.method(...): the method of that name, on its arguments.            *)
self(method, S, a) ==
    CASE method = "evaluate_expression" -> evaluate_expression(S, a[1], a[2], a[3])
      [] method = "do_assignment" -> do_assignment(S, a[1], a[2], a[3])
      [] method = "PrintArgs" -> PrintArgs(S, a[1], a[2], a[3], a[4], a[5])
      [] method = "BindArgs" -> BindArgs(S, a[1], a[2], a[3], a[4], a[5])
      [] method = "do_func_call" -> do_func_call(S, a[1], a[2], a[3])
      [] method = "RunStatements" -> RunStatements(S, a[1], a[2], a[3], a[4])
      [] method = "RunWhile" -> RunWhile(S, a[1], a[2], a[3])

-----------------------------------------------------------------------------
(* The machine: run() and the loop of run_func over the statements of      *)
(* main.                                                                   *)

(* Lines 27-36: the first function named main, NoNode when there is none.  *)
get_main_node(functions_list) ==
    IF Named(functions_list, "main") = {} THEN NoNode
    ELSE functions_list[First(Named(functions_list, "main"))]

Cur == [St(ast, variable_scope_list, variable_alias_list, heap, output, error)
           EXCEPT !.inp = input]

Becomes(S) ==
    /\ variable_scope_list' = S.scope
    /\ variable_alias_list' = S.alias
    /\ heap' = S.heap
    /\ output' = S.out
    /\ input' = S.inp

(* The state run() is called in: a program and the lines of input it will  *)
(* be given.                                                               *)
InitRunReading(programs, inputs) ==
    /\ ast \in programs
    /\ pc = "start"
    /\ variable_scope_list = <<>>
    /\ variable_alias_list = <<>>
    /\ heap = <<>>
    /\ output = <<>>
    /\ error = ""
    /\ pos = 1
    /\ input \in inputs

InitRun(programs) == InitRunReading(programs, {<<>>})

(* Lines 17-24: run() up to the call of run_func.                          *)
Run ==
    /\ pc = "start"
    /\ IF get_main_node(ast) = NoNode
       THEN /\ pc' = "error"
            /\ error' = "NAME_ERROR"
            /\ UNCHANGED <<variable_scope_list, variable_alias_list>>
       ELSE /\ pc' = "main"
            /\ error' = ""
            /\ variable_scope_list' = << <<>> >>
            /\ variable_alias_list' = << <<>> >>
    /\ UNCHANGED <<ast, heap, output, pos, input>>

(* Lines 59-67 for main: what the statement handed back decides how the    *)
(* loop goes on.  A run that never ends stays at "hang".                   *)
StepTo(r) ==
    /\ r.st.err # "BOUND"
    /\ Len(r.st.heap) <= MaxHeap
    /\ IF r.st.err = "HANG" THEN
           /\ Becomes(r.st)
           /\ pc' = "hang"
           /\ UNCHANGED <<error, pos>>
       ELSE IF r.st.err # "" THEN
           /\ Becomes(r.st)
           /\ pc' = "error"
           /\ error' = r.st.err
           /\ UNCHANGED pos
       ELSE IF r.val # None THEN
           /\ Becomes([r.st EXCEPT !.scope = Pop(@), !.alias = Pop(@)])
           /\ pc' = "done"
           /\ UNCHANGED <<error, pos>>
       ELSE
           /\ Becomes(r.st)
           /\ pos' = pos + 1
           /\ UNCHANGED <<pc, error>>

(* The guard of StepTo.                                                    *)
Stepped(r) == r.st.err # "BOUND" /\ Len(r.st.heap) <= MaxHeap

(* Lines 58-62 for main: one statement of main, run to its end.            *)
Step ==
    /\ pc = "main"
    /\ pos <= Len(get_main_node(ast).statements)
    /\ StepTo(run_statement(Cur, get_main_node(ast).statements[pos], 0, MaxDepth))
    /\ UNCHANGED ast

(* Lines 64-67 for main: the statements are through.                       *)
Finish ==
    /\ pc = "main"
    /\ pos > Len(get_main_node(ast).statements)
    /\ variable_scope_list' = Pop(variable_scope_list)
    /\ variable_alias_list' = Pop(variable_alias_list)
    /\ pc' = "done"
    /\ UNCHANGED <<ast, heap, output, error, pos, input>>

Next == Run \/ Step \/ Finish

(* The programs with the functions of table and a main whose body is any   *)
(* sequence of at most MaxMainLen statements of alphabet.                  *)
Bodies(alphabet, n) ==
    UNION {{[i \in 1..k |-> alphabet[f[i]]] : f \in [1..k -> 1..Len(alphabet)]} : k \in 0..n}

Programs(table, prelude, alphabet) ==
    {Append(table, Func("main", <<>>, prelude \o body)) : body \in Bodies(alphabet, MaxMainLen)}

(* The statement of main that has just been run, and a lookup of a bare    *)
(* variable in the state as it stands.                                     *)
Ran(statement) ==
    /\ pc = "main"
    /\ pos > 1
    /\ get_main_node(ast).statements[pos - 1] = statement

(* The statement of main that ended the run with an error.                 *)
Failed(statement, kind) ==
    /\ pc = "error"
    /\ error = kind
    /\ get_main_node(ast).statements[pos] = statement

(* The statements of main before statement k.                              *)
Before(k) == {get_main_node(ast).statements[i] : i \in 1..(k - 1)}

(* Statement k of main is the one that has just run or failed.             *)
Attempted(k) == (pc = "main" /\ pos = k + 1) \/ (pc = "error" /\ pos = k)

Lookup(var_name) == self_evaluate_expression(Cur, Var(var_name), 0, 0).val

-----------------------------------------------------------------------------
(* Reference parameters: programs over f(ref b), g(b) and the chain        *)
(* h(ref b) -> k(ref c), run after a = 1.                                  *)

TableRef ==
    << Func("f", <<RefArg("b")>>, <<Assign("b", IntLit(2))>>),
       Func("g", <<Arg("b")>>, <<PrintCall(<<Var("b")>>), Assign("b", IntLit(7))>>),
       Func("h", <<RefArg("b")>>, <<FCall("k", <<Var("b")>>)>>),
       Func("k", <<RefArg("c")>>,
            <<Assign("c", IntLit(3)), PrintCall(<<Var("b")>>), PrintCall(<<Var("a")>>),
              Assign("a", IntLit(5)), PrintCall(<<Var("c")>>), PrintCall(<<Var("b")>>)>>) >>

CallF == FCall("f", <<Var("a")>>)
CallFInIf == If(BoolLit(TRUE), <<CallF, PrintCall(<<Var("a")>>)>>, NoElse)
CallFInElse == If(BoolLit(FALSE), <<>>, <<CallF, PrintCall(<<Var("a")>>)>>)
CallG == FCall("g", <<IntLit(4)>>)
CallH == FCall("h", <<Var("a")>>)
SetA == Assign("a", IntLit(1))

AlphabetRef == <<CallF, CallFInIf, CallFInElse, CallG, CallH, SetA>>

InitRef == InitRun(Programs(TableRef, <<SetA>>, AlphabetRef))
SpecRef == InitRef /\ [][Next]_vars

Last(seq) == seq[Len(seq)]

Tail4(seq) == SubSeq(seq, Len(seq) - 3, Len(seq))

(* C1: once f(ref b) has assigned 2 to b and the call f(a) has returned, a  *)
(* lookup of a in the caller yields 2, at a call in main's own frame and   *)
(* at a call inside an if or else block, there both inside the block after *)
(* the call and in main once the block has been left.                      *)
C1_RefWriteReachesCaller ==
    /\ (Ran(CallF) \/ Ran(CallFInIf) \/ Ran(CallFInElse)) => Lookup("a") = IntV(2)
    /\ (Ran(CallFInIf) \/ Ran(CallFInElse)) => Last(output) = "2"

(* C1, the part the code keeps: a call in main's own frame, and the lookup *)
(* made inside the block right after a call in that block.                 *)
C1_RefWriteOneFrameDown ==
    /\ Ran(CallF) => Lookup("a") = IntV(2)
    /\ (Ran(CallFInIf) \/ Ran(CallFInElse)) => Last(output) = "2"

C1_BlockLeft == Ran(CallFInIf) /\ Lookup("a") = IntV(1)

(* C2: a call g(4) of g(b) prints 4, the value of its argument, and the    *)
(* assignment to b in g leaves every binding of main's frame as it was,    *)
(* whatever statements ran before it.                                      *)
C2_ByValueNeverAliases ==
    [][(pc = "main" /\ pc' = "main" /\ get_main_node(ast).statements[pos] = CallG)
         => /\ Last(output') = "4"
            /\ variable_scope_list' = variable_scope_list]_vars

C2_StaleAlias ==
    /\ Ran(CallG)
    /\ Last(output) = "2"
    /\ Lookup("a") = IntV(7)

(* C3: in the chain h(ref b) -> k(ref c) called as h(a), after c = 3 the   *)
(* reads of b and of a yield 3, and after a = 5 made in k the reads of c   *)
(* and of b yield 5; main's a is 5 once the chain has returned.            *)
C3_ChainConsistent ==
    Ran(CallH) =>
        /\ Len(output) >= 4
        /\ Tail4(output) = <<"3", "3", "5", "5">>
        /\ Lookup("a") = IntV(5)

C3_ChainRan ==
    /\ Ran(CallH)
    /\ Tail4(output) = <<"3", "3", "5", "5">>
    /\ pos > 3

-----------------------------------------------------------------------------
(* Lambdas and Object variables: a lambda whose body reads o, made in main *)
(* or in mk (where o is a local Object when main has none), called from    *)
(* main or from inside call; and a lambda made in inner, whose parameter o *)
(* is an Object while the frame of outer below binds o to 5.               *)

ReadsO == <<PrintCall(<<Bin("==", Var("o"), Var("o"))>>)>>

TableLambda ==
    << Func("mk", <<>>, <<Assign("o", New), Return(Lambda(<<>>, ReadsO))>>),
       Func("call", <<Arg("g")>>, <<FCall("g", <<>>)>>),
       Func("inner", <<Arg("o")>>,
            <<Assign("m", Lambda(<<>>, <<PrintCall(<<Bin("==", Var("o"), IntLit(5))>>)>>)),
              FCall("m", <<>>)>>),
       Func("outer", <<Arg("o")>>, <<FCall("inner", <<New>>)>>) >>

MakeObj == Assign("o", New)
MakeLam == Assign("l", Lambda(<<>>, ReadsO))
MakeLamIn == Assign("l", FCall("mk", <<>>))
MakeLamParam == Assign("l", Lambda(<<Arg("o")>>, ReadsO))
CallLam == FCall("l", <<>>)
CallVia == FCall("call", <<Var("l")>>)
CallParam == FCall("l", <<IntLit(1)>>)
Shadowed == FCall("outer", <<IntLit(5)>>)

AlphabetLambda == <<MakeObj, MakeLam, MakeLamIn, MakeLamParam, CallLam, CallVia, CallParam,
                    Shadowed>>

InitLambda == InitRun(Programs(TableLambda, <<>>, AlphabetLambda))
SpecLambda == InitLambda /\ [][Next]_vars

MainBody == get_main_node(ast).statements

(* The statement of main that has just run or failed, 0 before the first.  *)
Current == IF pc \in {"error", "hang"} THEN pos ELSE IF pc = "main" THEN pos - 1 ELSE 0

Makers == {MakeLam, MakeLamIn, MakeLamParam}

(* The statement that made the lambda l holds when statement k starts;     *)
(* 0 when l is not made yet.                                               *)
MadeAt(k) ==
    IF \E j \in 1..(k - 1) : MainBody[j] \in Makers
    THEN CHOOSE j \in 1..(k - 1) :
            MainBody[j] \in Makers /\ \A i \in (j + 1)..(k - 1) : MainBody[i] \notin Makers
    ELSE 0

(* An Object variable o is in scope where statement j makes its lambda:    *)
(* in mk always, in main once o = @ has run.                               *)
ObjectInScopeAt(j) == MainBody[j] = MakeLamIn \/ MakeObj \in Before(j)

(* l holds a lambda without parameters whose body reads o, made while an   *)
(* Object o was in scope, and statement k calls it.                        *)
CallsLambdaMadeWithObject(k) ==
    /\ k > 0
    /\ MainBody[k] \in {CallLam, CallVia}
    /\ MadeAt(k) > 0
    /\ MainBody[MadeAt(k)] \in {MakeLam, MakeLamIn}
    /\ ObjectInScopeAt(MadeAt(k))

CapturesNoObject ==
    \A i \in 1..Len(heap) :
        heap[i].kind = "lambda" =>
            \A j \in 1..Len(heap[i].fields) : heap[i].fields[j].v.t \notin {"obj", "lambda"}

(* C4: a lambda made while an Object variable o is in scope does not       *)
(* capture o, and every later call of it fails with NAME_ERROR when its    *)
(* body reads o and o is not one of its parameters, also while the binding *)
(* of o is still on the scope stack.                                       *)
C4_CallFailsWithNameError ==
    /\ CapturesNoObject
    /\ CallsLambdaMadeWithObject(Current) => pc = "error" /\ error = "NAME_ERROR"
    /\ (Current > 0 /\ MainBody[Current] = Shadowed) => pc = "error" /\ error = "NAME_ERROR"

(* C4 as the code has it: no Object or Lambda is ever among the captured   *)
(* variables of a lambda; a call of the lambda reads o from the scope      *)
(* stack when a frame on it binds o, and fails with NAME_ERROR only when   *)
(* no frame does; a lambda with parameter o reads its argument; and the    *)
(* lambda made under an Object parameter o reads the 5 it captured from    *)
(* the frame below.                                                        *)
C4_CallFailsOnlyWithoutBinding ==
    /\ CapturesNoObject
    /\ CallsLambdaMadeWithObject(Current) =>
          IF Has(variable_scope_list[1], "o")
          THEN pc = "main" /\ Last(output) = "true"
          ELSE pc = "error" /\ error = "NAME_ERROR"
    /\ (/\ Current > 0
        /\ MainBody[Current] = CallParam
        /\ MadeAt(Current) > 0
        /\ MainBody[MadeAt(Current)] = MakeLamParam) => pc = "main" /\ Last(output) = "true"
    /\ (Current > 0 /\ MainBody[Current] = Shadowed) => pc = "main" /\ Last(output) = "true"

C4_CalledWhileBound ==
    /\ CallsLambdaMadeWithObject(Current)
    /\ MainBody[MadeAt(Current)] = MakeLam
    /\ pc = "main"
    /\ Last(output) = "true"
    /\ ~Has(heap[Get(variable_scope_list[1], "l").v].fields, "o")

(* Calls of two(x, y) with arguments that are literals or the caller's x   *)
(* and y, after main has bound none, one or both of them.                  *)
TableArgs ==
    << Func("two", <<Arg("x"), Arg("y")>>, <<PrintCall(<<Var("x")>>), PrintCall(<<Var("y")>>)>>) >>

SetX == Assign("x", IntLit(5))
SetY == Assign("y", IntLit(7))
ArgExprs == <<IntLit(1), Var("x"), Var("y")>>
Two(i, j) == FCall("two", <<ArgExprs[i], ArgExprs[j]>>)
AlphabetArgs == <<SetX, SetY, Two(1, 2), Two(2, 1), Two(3, 2), Two(2, 3), Two(1, 3)>>
InitArgs == InitRun(Programs(TableArgs, <<>>, AlphabetArgs))
SpecArgs == InitArgs /\ [][Next]_vars

Tail2(seq) == SubSeq(seq, Len(seq) - 1, Len(seq))

IsCallOfTwo(k) == k > 0 /\ MainBody[k].elem_type = "fcall" /\ MainBody[k].name = "two"

(* An argument of a call in main has a value in the caller: it is a        *)
(* literal or a variable that main has bound.  two assigns nothing, so     *)
(* main's frame after the call is the frame before it.                     *)
CallerHas(e) == e.elem_type = "int" \/ Has(variable_scope_list[1], e.name)
CallerValue(e) ==
    IF e.elem_type = "int" THEN PyStrOfInt(e.val.i)
    ELSE get_printable(Get(variable_scope_list[1], e.name))

(* C5: the value bound to each parameter is the value of its argument in   *)
(* the caller before the callee's frame is pushed: two(e1, e2) prints the  *)
(* caller's values of e1 and e2, and fails with NAME_ERROR when the caller *)
(* has no binding for one of them.                                         *)
C5_ArgsFromCaller ==
    IsCallOfTwo(Current) =>
        IF CallerHas(MainBody[Current].args[1]) /\ CallerHas(MainBody[Current].args[2])
        THEN pc = "main" /\ Tail2(output) = << CallerValue(MainBody[Current].args[1]),
                                               CallerValue(MainBody[Current].args[2]) >>
        ELSE pc = "error" /\ error = "NAME_ERROR"

(* C5 as the code has it: the second argument is evaluated with the        *)
(* callee's frame, already holding x, on top of the stack, so an argument  *)
(* x for y reads the parameter x bound a moment before.                    *)
C5_SecondArgSeesFirst ==
    (IsCallOfTwo(Current) /\ CallerHas(MainBody[Current].args[1])) =>
        IF MainBody[Current].args[2] = Var("x")
        THEN pc = "main" /\ Tail2(output) = << CallerValue(MainBody[Current].args[1]),
                                               CallerValue(MainBody[Current].args[1]) >>
        ELSE IF CallerHas(MainBody[Current].args[2])
        THEN pc = "main" /\ Tail2(output) = << CallerValue(MainBody[Current].args[1]),
                                               CallerValue(MainBody[Current].args[2]) >>
        ELSE pc = "error" /\ error = "NAME_ERROR"

C5_BoundToEarlierParameter ==
    /\ Ran(Two(1, 2))
    /\ Has(variable_scope_list[1], "x")
    /\ Get(variable_scope_list[1], "x") = IntV(5)
    /\ Tail2(output) = <<"1", "1">>

(* Four objects chained a -> b -> c -> o by proto; main then sets f on     *)
(* some of them, cuts, shortens or closes the chain, and reads a.f or c.f. *)
PreludeProto ==
    << Assign("a", New), Assign("b", New), Assign("c", New), Assign("o", New),
       Assign("a.proto", Var("b")), Assign("b.proto", Var("c")), Assign("c.proto", Var("o")) >>

ReadF(obj_name) == Assign("x", Var(Dot(obj_name, "f")))
AlphabetProto ==
    << Assign("o.f", IntLit(4)), Assign("c.f", IntLit(3)), Assign("b.f", IntLit(2)),
       Assign("b.proto", NilLit), Assign("o.proto", Var("a")), Assign("a.proto", Var("c")),
       ReadF("a"), ReadF("c") >>
InitProto == InitRun(Programs(<<>>, PreludeProto, AlphabetProto))
SpecProto == InitProto /\ [][Next]_vars

(* The chain obj, obj.proto, obj.proto.proto, ... as the claim reads it,   *)
(* followed for at most n objects; 0 stands for the end of the chain.      *)
ProtoOf(id) ==
    IF Has(heap[id].fields, "proto") /\ Get(heap[id].fields, "proto").t = "obj"
    THEN Get(heap[id].fields, "proto").v
    ELSE 0

RECURSIVE ChainFrom(_, _)
ChainFrom(id, n) ==
    IF id = 0 \/ n = 0 THEN <<>> ELSE <<id>> \o ChainFrom(ProtoOf(id), n - 1)

Chain(id) == ChainFrom(id, Len(heap) + 1)
ChainEnds(id) == Len(Chain(id)) <= Len(heap)
Owners(id, field_name) ==
    {i \in 1..Len(Chain(id)) : Has(heap[Chain(id)[i]].fields, field_name)}
FirstOwner(id, field_name) ==
    Chain(id)[CHOOSE i \in Owners(id, field_name) : \A j \in Owners(id, field_name) : i <= j]

ReadAt(k, obj_name) == k > 0 /\ k > Len(PreludeProto) /\ MainBody[k] = ReadF(obj_name)
MainObject(obj_name) == Get(variable_scope_list[1], obj_name).v

(* C6: reading obj.f yields the f of the first object along obj,           *)
(* obj.proto, obj.proto.proto, ... that has f, however long the chain, and *)
(* fails with NAME_ERROR when no object on the chain has f and the chain   *)
(* ends at an object without proto or with a proto that is no Object.      *)
C6_ReadFollowsChain ==
    \A obj_name \in {"a", "c"} :
        ReadAt(Current, obj_name) =>
            IF Owners(MainObject(obj_name), "f") # {}
            THEN /\ pc = "main"
                 /\ Get(variable_scope_list[1], "x")
                        = Get(heap[FirstOwner(MainObject(obj_name), "f")].fields, "f")
            ELSE ChainEnds(MainObject(obj_name)) => pc = "error" /\ error = "NAME_ERROR"

C6_ReadThreeHopsAway ==
    /\ ReadAt(Current, "a")
    /\ Len(Chain(MainObject("a"))) = 4
    /\ Owners(MainObject("a"), "f") = {4}
    /\ pc = "main"
    /\ Get(variable_scope_list[1], "x") = IntV(4)

C6_ReadFailsAtCutChain ==
    /\ ReadAt(Current, "a")
    /\ Len(Chain(MainObject("a"))) = 2
    /\ Get(heap[MainObject("b")].fields, "proto") = NIL_VALUE
    /\ pc = "error"
    /\ error = "NAME_ERROR"

(* g is defined with one and with two parameters; main may also bind a    *)
(* variable g to a lambda, to the function h or to 5, calls g, reads g as  *)
(* a value, and makes and calls a lambda that reads g.                     *)
Says(text) == <<PrintCall(<<StrLit(text)>>)>>
TableOverload ==
    << Func("g", <<Arg("a")>>, Says("g1")),
       Func("g", <<Arg("a"), Arg("b")>>, Says("g2")),
       Func("h", <<Arg("a"), Arg("b")>>, Says("h")) >>

CallG1 == FCall("g", <<IntLit(1)>>)
CallG2 == FCall("g", <<IntLit(1), IntLit(2)>>)
SetGLambda == Assign("g", Lambda(<<Arg("a"), Arg("b")>>, Says("var")))
SetGFunc == Assign("g", Var("h"))
SetGInt == Assign("g", IntLit(5))
BareG == Assign("x", Var("g"))
MakeReader == Assign("l", Lambda(<<>>, <<BareG>> \o Says("read")))
CallReader == FCall("l", <<>>)
AlphabetOverload ==
    <<CallG1, CallG2, SetGLambda, SetGFunc, SetGInt, BareG, MakeReader, CallReader>>
InitOverload == InitRun(Programs(TableOverload, <<>>, AlphabetOverload))
SpecOverload == InitOverload /\ [][Next]_vars

Is(k, statement) == k > 0 /\ MainBody[k] = statement

C7_CalledByArityUnderVariable ==
    /\ Is(Current, CallG2)
    /\ Has(variable_scope_list[1], "g")
    /\ Get(variable_scope_list[1], "g").t = "lambda"
    /\ Last(output) = "g2"

(* Programs of up to MaxFuncs functions out of: a main without            *)
(* parameters, a second one, a main with a parameter, and a function that  *)
(* is not main.                                                            *)
FunctionsMain ==
    << Func("main", <<>>, Says("m0")),
       Func("main", <<>>, Says("again")),
       Func("main", <<Arg("a")>>, Says("m1")),
       Func("f", <<>>, Says("f")) >>
ProgramsMain ==
    UNION {{[i \in 1..k |-> FunctionsMain[f[i]]] : f \in [1..k -> 1..Len(FunctionsMain)]}
              : k \in 0..MaxFuncs}
InitMain == InitRun(ProgramsMain)
SpecMain == InitMain /\ [][Next]_vars

Mains == {i \in 1..Len(ast) : ast[i].name = "main"}
OneMainWithoutParameters ==
    Cardinality(Mains) = 1 /\ \A i \in Mains : Len(ast[i].args) = 0

(* C8: unless the program has exactly one function main and it has no      *)
(* parameters, the run fails with NAME_ERROR and no statement executes.    *)
C8_RunNeedsOneMainWithoutParameters ==
    (~OneMainWithoutParameters /\ pc # "start") =>
        pc = "error" /\ error = "NAME_ERROR" /\ pos = 1 /\ output = <<>>

(* C8 as the code has it: the run fails only when no function is named     *)
(* main; else the first function named main runs, with or without          *)
(* parameters, and whatever mains follow it.                               *)
C8_FirstMainRuns ==
    pc # "start" =>
        IF Mains = {} THEN pc = "error" /\ error = "NAME_ERROR" /\ pos = 1 /\ output = <<>>
        ELSE /\ pc \in {"main", "done"}
             /\ pos > 1 => output = <<ast[First(Mains)].statements[1].args[1].val.s>>

C8_MainWithParameterRan ==
    /\ pc = "done"
    /\ Cardinality(Mains) = 1
    /\ \A i \in Mains : Len(ast[i].args) = 1
    /\ output = <<"m1">>

C8_SecondMainIgnored ==
    /\ pc = "done"
    /\ Cardinality(Mains) = 2
    /\ \A i \in Mains : Len(ast[i].args) = 0
    /\ Len(output) = 1

C8_NoMainFails ==
    /\ pc = "error"
    /\ error = "NAME_ERROR"
    /\ Len(ast) > 0
    /\ Mains = {}

(* One comparison of two operands out of literals of every scalar type,   *)
(* a fresh object, variables that share or do not share an Object or a     *)
(* Lambda, and Function values: the name itself, variables assigned from   *)
(* it, and the copy a return hands back.                                   *)
TableEq ==
    << Func("f1", <<>>, <<>>), Func("f2", <<>>, <<>>),
       Func("mk", <<>>, <<Return(Var("f1"))>>) >>

PreludeEq ==
    << Assign("o", New), Assign("q", Var("o")),
       Assign("l", Lambda(<<>>, <<>>)), Assign("m", Lambda(<<>>, <<>>)), Assign("k", Var("l")),
       Assign("fa", Var("f1")), Assign("fb", Var("f2")), Assign("fc", FCall("mk", <<>>)) >>

OperandsEq ==
    {IntLit(i) : i \in 0..MaxInt}
        \cup {BoolLit(TRUE), BoolLit(FALSE), StrLit("a"), StrLit("b"), NilLit, New}
        \cup {Var(n) : n \in {"o", "q", "l", "m", "k", "fa", "fb", "fc", "f1"}}

Compare(u, w) ==
    << Assign("x", Bin("==", u, w)), Assign("y", Bin("!=", u, w)), Assign("z", Bin("==", w, u)) >>

ProgramsEq ==
    {Append(TableEq, Func("main", <<>>, PreludeEq \o Compare(u, w))) :
        u \in OperandsEq, w \in OperandsEq}
InitEq == InitRun(ProgramsEq)
SpecEq == InitEq /\ [][Next]_vars

(* The operands of the comparison that main makes and their values in the  *)
(* state as it stands; each evaluation of @ is an object of its own.       *)
LeftOperand == MainBody[Len(PreludeEq) + 1].expression.op1
RightOperand == MainBody[Len(PreludeEq) + 1].expression.op2
ValueNow(e) == self_evaluate_expression(Cur, e, 0, 0).val
Compared == pc = "main" /\ pos = Len(PreludeEq) + 4

AsBool(val) == IF val.t = "int" THEN val.v # 0 ELSE val.v = 1

(* == as the claim tabulates it.                                           *)
EqualAsClaimed(a, b, fresh) ==
    IF a.t = b.t /\ a.t \in {"int", "bool", "string"} THEN a = b
    ELSE IF a.t = b.t /\ a.t \in {"obj", "lambda", "func"} THEN ~fresh /\ a.v = b.v
    ELSE IF a.t = "nil" /\ b.t = "nil" THEN TRUE
    ELSE IF {a.t, b.t} = {"int", "bool"} THEN AsBool(a) = AsBool(b)
    ELSE FALSE

(* C9: for operands of every type a != b is the negation of a == b,        *)
(* a == b equals b == a, and a == b is value equality for two Ints, Bools  *)
(* or Strings, identity for two Objects, Lambdas or Functions, true for    *)
(* two Nils, the comparison of the coerced Int for Int and Bool, and false *)
(* for every other pair of types.                                          *)
C9_EqualityTable ==
    /\ pc \notin {"error", "hang"}
    /\ Compared =>
          /\ Get(variable_scope_list[1], "x")
                = BoolV(EqualAsClaimed(ValueNow(LeftOperand), ValueNow(RightOperand),
                                       New \in {LeftOperand, RightOperand}))
          /\ Get(variable_scope_list[1], "y").t = "bool"
          /\ Get(variable_scope_list[1], "y").v = 1 - Get(variable_scope_list[1], "x").v
          /\ Get(variable_scope_list[1], "z") = Get(variable_scope_list[1], "x")

C9_ComparedIntWithBool ==
    /\ Compared
    /\ LeftOperand = IntLit(2)
    /\ RightOperand = BoolLit(TRUE)
    /\ Get(variable_scope_list[1], "x") = BoolV(TRUE)

C9_ComparedFreshObjects ==
    /\ Compared
    /\ LeftOperand = New
    /\ RightOperand = New
    /\ Get(variable_scope_list[1], "x") = BoolV(FALSE)
    /\ Get(variable_scope_list[1], "y") = BoolV(TRUE)

C9_ComparedSharedObject ==
    /\ Compared
    /\ LeftOperand = Var("o")
    /\ RightOperand = Var("q")
    /\ Get(variable_scope_list[1], "x") = BoolV(TRUE)

C9_ComparedCopiedFunction ==
    /\ Compared
    /\ LeftOperand = Var("fc")
    /\ RightOperand = Var("f1")
    /\ Get(variable_scope_list[1], "x") = BoolV(FALSE)

(* A function r whose return statement lies inside up to MaxNest blocks,  *)
(* each an if block, an else block or the body of while (true), with a     *)
(* print of "late" after the return and after every block around it; main  *)
(* binds want to the value expected and x to r().                          *)
BlockKinds == {"if", "else", "while"}
Block(kind, statements) ==
    IF kind = "if" THEN If(BoolLit(TRUE), statements, NoElse)
    ELSE IF kind = "else" THEN If(BoolLit(FALSE), Says("late"), statements)
    ELSE While(BoolLit(TRUE), statements)

RECURSIVE Nested(_, _)
Nested(kinds, expression) ==
    IF kinds = <<>> THEN Says("in") \o <<Return(expression)>> \o Says("late")
    ELSE <<Block(Head(kinds), Nested(Tail(kinds), expression))>> \o Says("late")

Nestings == UNION {[1..k -> BlockKinds] : k \in 0..MaxNest}
ReturnExprs == {IntLit(7), StrLit("s"), BoolLit(FALSE), NilLit, NoNode}

(* The return is reached in the second iteration of the loop.              *)
Counting ==
    << Assign("i", IntLit(0)),
       While(Bin("<", Var("i"), IntLit(2)),
             << Assign("i", Bin("+", Var("i"), IntLit(1))),
                If(Bin("==", Var("i"), IntLit(2)), <<Return(Var("i"))>>, NoElse) >>
                 \o Says("in")) >>
        \o Says("late")

(* The return is never reached.                                            *)
FallsThrough ==
    << If(BoolLit(FALSE), <<Return(IntLit(1))>>, NoElse),
       While(BoolLit(FALSE), <<Return(IntLit(1))>>) >> \o Says("in")

CallR == Assign("x", FCall("r", <<>>))
ProgramReturn(body, want) ==
    << Func("r", <<>>, body), Func("main", <<>>, <<Assign("want", want), CallR>>) >>
ProgramsReturn ==
    {ProgramReturn(Nested(kinds, e), IF e = NoNode THEN NilLit ELSE e) :
        kinds \in Nestings, e \in ReturnExprs}
        \cup {ProgramReturn(Counting, IntLit(2)), ProgramReturn(FallsThrough, NilLit)}
InitReturn == InitRun(ProgramsReturn)
SpecReturn == InitReturn /\ [][Next]_vars

(* C10: once a return statement runs, at any depth of if, else and while   *)
(* blocks, no later statement of the body runs, in no block and in no      *)
(* further iteration, and the call yields the value returned: Nil for a    *)
(* return without expression and for a body that ends without a return.    *)
C10_ReturnEndsBody ==
    /\ pc \notin {"error", "hang"}
    /\ \A i \in 1..Len(output) : output[i] # "late"
    /\ Is(Current, CallR) =>
          /\ output = <<"in">>
          /\ Get(variable_scope_list[1], "x") = Get(variable_scope_list[1], "want")

C10_ReturnedFromTwoBlocks ==
    /\ Is(Current, CallR)
    /\ ast[1].statements[1].elem_type = "while"
    /\ ast[1].statements[1].statements[1].elem_type = "if"
    /\ ast[1].statements[1].statements[1].else_statements # NoElse
    /\ output = <<"in">>
    /\ Get(variable_scope_list[1], "x") = IntV(7)

C10_ReturnedInSecondIteration ==
    /\ Is(Current, CallR)
    /\ ast[1].statements = Counting
    /\ Get(variable_scope_list[1], "x") = IntV(2)

C10_EndedWithoutReturn ==
    /\ Is(Current, CallR)
    /\ ast[1].statements = FallsThrough
    /\ Get(variable_scope_list[1], "x") = NIL_VALUE

C10_ReturnedWithoutExpression ==
    /\ Is(Current, CallR)
    /\ ast[1].statements = Nested(<<"if">>, NoNode)
    /\ Get(variable_scope_list[1], "x") = NIL_VALUE

(* inner reads x, assigns x and creates n without a binding of its own; it *)
(* is called from main, from a block of main, through outer, which binds   *)
(* nothing, and through shadow, whose parameter x lies between main's x    *)
(* and inner.                                                              *)
TableDyn ==
    << Func("inner", <<>>,
            <<PrintCall(<<Var("x")>>), Assign("x", IntLit(9)), Assign("n", IntLit(3))>>),
       Func("outer", <<>>, <<FCall("inner", <<>>)>>),
       Func("shadow", <<Arg("x")>>, <<FCall("inner", <<>>), PrintCall(<<Var("x")>>)>>) >>

SetX1 == Assign("x", IntLit(1))
CallInner == FCall("inner", <<>>)
CallOuter == FCall("outer", <<>>)
CallInBlock == If(BoolLit(TRUE), <<CallInner>>, NoElse)
CallShadow == FCall("shadow", <<IntLit(5)>>)
PrintN == PrintCall(<<Var("n")>>)
AlphabetDyn == <<SetX1, CallInner, CallOuter, CallInBlock, CallShadow, PrintN>>
InitDyn == InitRun(Programs(TableDyn, <<>>, AlphabetDyn))
SpecDyn == InitDyn /\ [][Next]_vars

Starts(statement) ==
    pc = "main" /\ pos <= Len(MainBody) /\ MainBody[pos] = statement

FailsWith(kind) == pc' = "error" /\ error' = kind

(* C11: inner, which has no x of its own, reads the innermost x among the  *)
(* frames of its callers and overwrites that x, and the n it creates is    *)
(* gone after the call: called under main's x it prints main's x and       *)
(* leaves main's x = 9, called under shadow's parameter x it prints and    *)
(* overwrites the parameter and leaves main's frame as it was, and a read  *)
(* of n in main fails with NAME_ERROR.                                     *)
C11_CalleeSeesCallerFrames ==
    [][ /\ \A call \in {CallInner, CallOuter, CallInBlock} : Starts(call) =>
              IF Has(variable_scope_list[1], "x")
              THEN /\ pc' = "main"
                   /\ output' = Append(output, get_printable(Get(variable_scope_list[1], "x")))
                   /\ variable_scope_list' = << Put(variable_scope_list[1], "x", IntV(9)) >>
              ELSE FailsWith("NAME_ERROR")
        /\ Starts(CallShadow) =>
              /\ pc' = "main"
              /\ output' = output \o <<"5", "9">>
              /\ variable_scope_list' = variable_scope_list
        /\ Starts(PrintN) => FailsWith("NAME_ERROR")
      ]_vars

C11_OverwroteThroughOuter ==
    /\ Ran(CallOuter)
    /\ Last(output) = "1"
    /\ variable_scope_list = << <<[k |-> "x", v |-> IntV(9)]>> >>

C11_ShadowKeptMainsX ==
    /\ Ran(CallShadow)
    /\ Tail2(output) = <<"5", "9">>
    /\ variable_scope_list = << <<[k |-> "x", v |-> IntV(1)]>> >>

-----------------------------------------------------------------------------
(* The program embedded in main() (lines 863-885), and the programs that   *)
(* differ from it in the value x.a starts with and in the value the        *)
(* countdown stops at.                                                     *)
FooStart == 12
FooEnd == 9
EndMessage == "reached the end!!!"

Foo(end) ==
    Func("foo", <<RefArg("x")>>,
         << If(Bin(">", Var("x.a"), IntLit(end)),
               << Assign("x.a", Bin("-", Var("x.a"), IntLit(1))),
                  PrintCall(<<Var("x.a")>>),
                  FCall("foo", <<Var("x")>>) >>,
               << PrintCall(<<StrLit(EndMessage)>>) >>) >>)

MainFoo(start) ==
    Func("main", <<>>,
         << Assign("x", New), Assign("x.a", IntLit(start)), FCall("foo", <<Var("x")>>),
            PrintCall(<<Var("x.a")>>) >>)

ProgramFoo(start, end) == <<Foo(end), MainFoo(start)>>

(* The countdowns as long as the embedded one at most.                     *)
FooRuns == {<<end + k, end>> : end \in 1..FooEnd, k \in 0..(FooStart - FooEnd)}

ProgramsFoo == {ProgramFoo(run[1], run[2]) : run \in FooRuns}
InitFoo == InitRun(ProgramsFoo)

(* Lines 17-24, 58-67: the interpreter has a step to take, which is what   *)
(* ENABLED <<Next>>_vars says of a state.                                   *)
Running ==
    \/ pc = "start"
    \/ /\ pc = "main"
       /\ pos > Len(get_main_node(ast).statements)
    \/ /\ pc = "main"
       /\ pos <= Len(get_main_node(ast).statements)
       /\ Stepped(run_statement(Cur, get_main_node(ast).statements[pos], 0, MaxDepth))

(* The interpreter runs on while it has a step to take: weak fairness of   *)
(* Next, with Running for ENABLED <<Next>>_vars.                            *)
Fairness == []<>(~Running) \/ []<><<Next>>_vars

SpecFoo == InitFoo /\ [][Next]_vars /\ Fairness

RECURSIVE Countdown(_, _)
Countdown(from, end) ==
    IF from > end THEN <<PyStrOfInt(from - 1)>> \o Countdown(from - 1, end)
    ELSE <<EndMessage>>

FooRun == CHOOSE run \in FooRuns : ast = ProgramFoo(run[1], run[2])

(* C12: the embedded program, and each program like it with a countdown    *)
(* no longer than its own, raises no error, comes to its end, and has      *)
(* then printed the values below the start down to the end value, the end  *)
(* message and the end value once more: 11, 10, 9, reached the end!!!, 9   *)
(* for the embedded one.                                                   *)
C12_EmbeddedProgramCountsDown ==
    /\ [](pc \notin {"error", "hang"})
    /\ <>(pc = "done" /\ output = Countdown(FooRun[1], FooRun[2]) \o <<PyStrOfInt(FooRun[2])>>)

C12_EmbeddedProgramDone ==
    /\ ast = ProgramFoo(FooStart, FooEnd)
    /\ pc = "done"
    /\ output = <<"11", "10", "9", EndMessage, "9">>

-----------------------------------------------------------------------------
(* Blocks: the statements of main that enter if, else and while blocks,    *)
(* in main and in the functions main calls.                                *)
TableBlocks ==
    << Func("early", <<>>, <<If(BoolLit(TRUE), <<Return(IntLit(1))>>, NoElse)>>),
       Func("leave", <<>>, <<While(BoolLit(TRUE), <<Return(NoNode)>>)>>),
       Func("plain", <<>>, <<Assign("y", IntLit(1))>>) >>

SetI0 == Assign("i", IntLit(0))
IfThen == If(BoolLit(TRUE), <<Assign("t", IntLit(1))>>, NoElse)
IfElse == If(BoolLit(FALSE), <<>>, <<Assign("e", IntLit(1))>>)
IfSkip == If(BoolLit(FALSE), <<Assign("t", IntLit(1))>>, NoElse)
LoopTo2 == While(Bin("<", Var("i"), IntLit(2)), <<Assign("i", Bin("+", Var("i"), IntLit(1)))>>)
CallEarly == FCall("early", <<>>)
CallLeave == FCall("leave", <<>>)
CallPlain == FCall("plain", <<>>)
AlphabetBlocks == <<SetI0, IfThen, IfElse, IfSkip, LoopTo2, CallEarly, CallLeave, CallPlain>>
InitBlocks == InitRun(Programs(TableBlocks, <<SetI0>>, AlphabetBlocks))
SpecBlocks == InitBlocks /\ [][Next]_vars

(* The blocks a statement of the alphabet enters when it starts in the     *)
(* state as it stands.                                                     *)
BlocksEntered(statement) ==
    CASE statement \in {IfThen, IfElse, CallEarly, CallLeave} -> 1
      [] statement = LoopTo2 -> 2 - Get(variable_scope_list[1], "i").v
      [] OTHER -> 0

(* C13: between the statements of main the scope stack and the alias       *)
(* stack have the same length, the length they had before the first        *)
(* statement, whatever statements have run: assignments, calls, if and     *)
(* else blocks, loops, returns from inside a block.                        *)
C13_StacksSameLength ==
    pc = "main" => /\ Len(variable_scope_list) = Len(variable_alias_list)
                   /\ Len(variable_alias_list) = 1

(* C13 as the code has it: a statement leaves the scope stack as long as   *)
(* it was, and leaves on the alias stack one table more for each block     *)
(* that was entered while it ran.                                          *)
C13_AliasTableLeftPerBlock ==
    [][ \A k \in 1..Len(AlphabetBlocks) :
           Starts(AlphabetBlocks[k]) =>
              /\ pc' = "main"
              /\ Len(variable_scope_list') = Len(variable_scope_list)
              /\ Len(variable_alias_list') =
                     Len(variable_alias_list) + BlocksEntered(AlphabetBlocks[k])
      ]_vars

C13_AliasStackLonger ==
    /\ Ran(LoopTo2)
    /\ Len(variable_scope_list) = 1
    /\ Len(variable_alias_list) = 3

-----------------------------------------------------------------------------
(* Captures: snap makes a lambda under its parameter x, prints x and calls *)
(* the lambda, which prints the x it captured; deep calls snap under a     *)
(* parameter x of its own.                                                 *)
SnapBody ==
    << Assign("l", Lambda(<<>>, <<PrintCall(<<Var("x")>>)>>)), PrintCall(<<Var("x")>>),
       FCall("l", <<>>) >>

TableCapture ==
    << Func("snap", <<Arg("x")>>, SnapBody),
       Func("deep", <<Arg("x")>>, <<FCall("snap", <<IntLit(2)>>)>>) >>

SetX0 == Assign("x", IntLit(0))
SetXs == Assign("x", StrLit("s"))
SetY1 == Assign("y", IntLit(1))
Snap2 == FCall("snap", <<IntLit(2)>>)
Deep3 == FCall("deep", <<IntLit(3)>>)
MakeK == Assign("k", Lambda(<<>>, <<PrintCall(<<Var("x")>>)>>))
CallK == FCall("k", <<>>)
AlphabetCapture == <<SetX0, SetXs, SetY1, Snap2, Deep3, MakeK, CallK>>
InitCapture == InitRun(Programs(TableCapture, <<>>, AlphabetCapture))
SpecCapture == InitCapture /\ [][Next]_vars

(* The x that main binds, printed.                                         *)
MainsX == get_printable(Get(variable_scope_list[1], "x"))

(* C14: the lambda made in snap captures the value a plain read of x       *)
(* gives where it is made, the parameter of snap, also when main or deep   *)
(* bind an x of their own below it: snap prints its x twice.               *)
C14_InnermostCaptured ==
    [][ \A call \in {Snap2, Deep3} : Starts(call) => output' = output \o <<"2", "2">> ]_vars

(* C14 as the code has it: the x captured is the one of the outermost      *)
(* frame that binds x, main's before deep's before snap's own.             *)
C14_OutermostCaptured ==
    [][ /\ Starts(Snap2) =>
              output' = output \o <<"2", IF Has(variable_scope_list[1], "x") THEN MainsX
                                         ELSE "2">>
        /\ Starts(Deep3) =>
              output' = output \o <<"2", IF Has(variable_scope_list[1], "x") THEN MainsX
                                         ELSE "3">>
      ]_vars

C14_CapturedMainsX ==
    /\ Ran(Snap2)
    /\ Has(variable_scope_list[1], "x")
    /\ Tail2(output) = <<"2", MainsX>>

-----------------------------------------------------------------------------
(* Lambda bodies: a lambda that has captured x reads x in a top-level      *)
(* statement, in an if condition, in a while condition, in a statement of  *)
(* a block and in an argument of a call; x is assigned again between the   *)
(* making and the call.                                                    *)
TableBody == << Func("show", <<Arg("v")>>, <<PrintCall(<<Var("v")>>)>>) >>

XIs1 == Bin("==", Var("x"), IntLit(1))
ReadTop == <<PrintCall(<<Var("x")>>)>>
ReadCond == <<If(XIs1, Says("1"), Says("0"))>>
ReadLoop == <<While(XIs1, Says("1") \o <<Return(NoNode)>>)>> \o Says("0")
ReadNested == <<If(BoolLit(TRUE), <<PrintCall(<<Var("x")>>)>>, NoElse)>>
ReadArg == <<FCall("show", <<Var("x")>>)>>
BodiesX == {ReadTop, ReadCond, ReadLoop, ReadNested, ReadArg}

MakeL(body) == Assign("l", Lambda(<<>>, body))
AlphabetBody ==
    <<SetX0, MakeL(ReadTop), MakeL(ReadCond), MakeL(ReadLoop), MakeL(ReadNested),
      MakeL(ReadArg), CallReader>>
InitBody == InitRun(Programs(TableBody, <<SetX1>>, AlphabetBody))
SpecBody == InitBody /\ [][Next]_vars

(* The lambda that main's l holds: its body, and the x it captured.        *)
LambdaL == heap[Get(variable_scope_list[1], "l").v]
BodyL == LambdaL.node.statements
CapturedX == get_printable(Get(LambdaL.fields, "x"))

(* C15: a call of the lambda prints the x of its captured variables,       *)
(* whichever place of the body reads x, also when main's x has changed     *)
(* since the lambda was made.                                              *)
C15_BodyReadsCaptured ==
    [][ Starts(CallReader) /\ Has(variable_scope_list[1], "l") =>
            output' = Append(output, CapturedX) ]_vars

(* C15 as the code has it: a top-level statement of the body reads the     *)
(* captured x; a condition, a statement inside a block and an argument of  *)
(* a call read the x of the scope stack, main's x here.                    *)
C15_OnlyTopLevelReadsCaptured ==
    [][ Starts(CallReader) =>
            IF Has(variable_scope_list[1], "l")
            THEN output' = Append(output, IF BodyL = ReadTop THEN CapturedX ELSE MainsX)
            ELSE FailsWith("NAME_ERROR") ]_vars

C15_BlockReadMainsX ==
    /\ Ran(CallReader)
    /\ Has(variable_scope_list[1], "l")
    /\ BodyL = ReadNested
    /\ CapturedX = "1"
    /\ MainsX = "0"
    /\ Last(output) = "0"

-----------------------------------------------------------------------------
(* Cycles: two objects whose proto links the program sets, to each other   *)
(* and to themselves, and a field read and a method call that start at x.  *)
PreludeCycle == << Assign("x", New), Assign("y", New) >>
PrintXF == PrintCall(<<Var("x.f")>>)
CallXM == MCall("x", "m", <<>>)
AlphabetCycle ==
    << Assign("x.proto", Var("x")), Assign("x.proto", Var("y")), Assign("y.proto", Var("x")),
       Assign("y.f", IntLit(1)), Assign("y.m", Lambda(<<>>, Says("m"))), PrintXF, CallXM >>
InitCycle == InitRun(Programs(<<>>, PreludeCycle, AlphabetCycle))
SpecCycle == InitCycle /\ [][Next]_vars

(* The statement that has just run, failed or hung is the read of x.f or   *)
(* the call of x.m.                                                        *)
LookedUp(statement) == Current > Len(PreludeCycle) /\ MainBody[Current] = statement

(* C16: every read of x.f and every call of x.m() comes to an end, with    *)
(* the field or method found or with NAME_ERROR, whatever proto links the  *)
(* program has set, a cycle of them included.                              *)
C16_LookupsEnd ==
    /\ pc # "hang"
    /\ LookedUp(PrintXF) \/ LookedUp(CallXM) =>
           pc = "main" \/ (pc = "error" /\ error = "NAME_ERROR")

(* C16 as the code has it: the lookup ends when an object along the proto  *)
(* links has the name (found) or the links end (NAME_ERROR), and never     *)
(* ends when the links lead round a cycle on which no object has the name. *)
C16_LookupEndsUnlessCycleWithoutName ==
    /\ LookedUp(PrintXF) =>
           IF Owners(MainObject("x"), "f") # {} THEN pc = "main" /\ Last(output) = "1"
           ELSE IF ChainEnds(MainObject("x")) THEN pc = "error" /\ error = "NAME_ERROR"
           ELSE pc = "hang"
    /\ LookedUp(CallXM) =>
           IF Owners(MainObject("x"), "m") # {} THEN pc = "main" /\ Last(output) = "m"
           ELSE IF ChainEnds(MainObject("x")) THEN pc = "error" /\ error = "NAME_ERROR"
           ELSE pc = "hang"
    /\ pc = "hang" => LookedUp(PrintXF) \/ LookedUp(CallXM)

C16_ReadRoundCycle ==
    /\ LookedUp(PrintXF)
    /\ ProtoOf(MainObject("x")) = MainObject("x")
    /\ pc = "hang"

C16_CallRoundCycle ==
    /\ LookedUp(CallXM)
    /\ ProtoOf(MainObject("x")) = MainObject("y")
    /\ ProtoOf(MainObject("y")) = MainObject("x")
    /\ pc = "hang"

-----------------------------------------------------------------------------
(* Frames: f assigns to its ref parameter; it is called with main's a from *)
(* main, from a block of main and from via, whose frame binds nothing, and *)
(* the caller then prints a.  make assigns to a bare a.                    *)
TableFrames ==
    << Func("f", <<RefArg("b")>>, <<Assign("b", IntLit(2))>>),
       Func("via", <<>>, <<CallF, PrintCall(<<Var("a")>>)>>),
       Func("make", <<>>, <<Assign("a", IntLit(3))>>) >>

CallThrough == FCall("via", <<>>)
CallMake == FCall("make", <<>>)
AlphabetFrames == <<SetA, CallF, CallThrough, CallFInIf, CallMake>>
InitFrames == InitRun(Programs(TableFrames, <<>>, AlphabetFrames))
SpecFrames == InitFrames /\ [][Next]_vars

MainsA == Get(variable_scope_list[1], "a")

(* C17: an assignment adds a name to the innermost frame only, and only    *)
(* when no frame binds the name.  The frame of via and the frame of the    *)
(* block bind nothing, and the write of f to its parameter adds nothing to *)
(* them, so the a they print after the call of f is the a of main as it is *)
(* then; and make adds no a to main's frame.                               *)
C17_NameAddedToInnermostOnly ==
    [][ /\ \A call \in {CallThrough, CallFInIf} :
              Starts(call) /\ pc' = "main" =>
                  output' = Append(output, get_printable(Get(variable_scope_list'[1], "a")))
        /\ Starts(CallMake) /\ ~Has(variable_scope_list[1], "a") =>
              variable_scope_list' = variable_scope_list
      ]_vars

(* C17 as the code has it: the write of f to its parameter is repeated in  *)
(* the frame right below f's under the name of the argument, whether that  *)
(* frame binds the name or not.  Below a call from main that is main's a,  *)
(* which is overwritten; below a call from via or from a block it adds an  *)
(* a = 2 to the frame of via or of the block, which is what they print,    *)
(* and main's a stays as it was.                                           *)
C17_WriteRepeatedInFrameBelow ==
    [][ /\ Starts(SetA) =>
              variable_scope_list' = << Put(variable_scope_list[1], "a", IntV(1)) >>
        /\ Starts(CallMake) =>
              variable_scope_list' = IF Has(variable_scope_list[1], "a")
                                     THEN << Put(variable_scope_list[1], "a", IntV(3)) >>
                                     ELSE variable_scope_list
        /\ Starts(CallF) =>
              IF Has(variable_scope_list[1], "a")
              THEN variable_scope_list' = << Put(variable_scope_list[1], "a", IntV(2)) >>
              ELSE FailsWith("NAME_ERROR")
        /\ \A call \in {CallThrough, CallFInIf} :
              Starts(call) =>
                  IF Has(variable_scope_list[1], "a")
                  THEN /\ output' = Append(output, "2")
                       /\ variable_scope_list' = variable_scope_list
                  ELSE FailsWith("NAME_ERROR")
      ]_vars

C17_AddedToFrameOfVia ==
    /\ Ran(CallThrough)
    /\ Last(output) = "2"
    /\ MainsA = IntV(1)

-----------------------------------------------------------------------------
(* Ref arguments: f assigns to its ref parameter and is called with        *)
(* arguments that are no bare variable: a literal, a sum, a call of a      *)
(* function, a call of a lambda that main holds in g, and a field o.f.     *)
TableRefArg ==
    << Func("f", <<RefArg("b")>>, <<Assign("b", IntLit(2))>>),
       Func("one", <<>>, <<Return(IntLit(1))>>) >>

PreludeRefArg ==
    << Assign("o", New), Assign("o.f", IntLit(1)),
       Assign("g", Lambda(<<>>, <<Return(IntLit(1))>>)) >>

PassLiteral == FCall("f", <<IntLit(1)>>)
PassSum == FCall("f", <<Bin("+", IntLit(1), IntLit(1))>>)
PassCall == FCall("f", <<FCall("one", <<>>)>>)
PassLambdaCall == FCall("f", <<FCall("g", <<>>)>>)
PassField == FCall("f", <<Var("o.f")>>)
PrintField == PrintCall(<<Var("o.f")>>)
AlphabetRefArg == <<PassLiteral, PassSum, PassCall, PassLambdaCall, PassField, PrintField>>
Passes == {PassLiteral, PassSum, PassCall, PassLambdaCall, PassField}
InitRefArg == InitRun(Programs(TableRefArg, PreludeRefArg, AlphabetRefArg))
SpecRefArg == InitRefArg /\ [][Next]_vars

(* C18: a ref parameter whose argument is no bare variable is bound by     *)
(* value: the call of f, which assigns to the parameter, changes and       *)
(* creates no binding in main's frame.                                     *)
C18_NoBindingInCaller ==
    [][ \A call \in Passes :
            Starts(call) => pc' = "main" /\ variable_scope_list' = variable_scope_list ]_vars

(* C18 as the code has it: the name recorded for the parameter is the name *)
(* entry of the argument's node, and the write to the parameter is         *)
(* repeated in main's frame under it: under no name for a literal and a    *)
(* sum, under the name of the function called for a call, which replaces   *)
(* main's lambda g by 2, and under "o.f" for a field, which adds a binding *)
(* of that name and leaves the field of o as it was.                       *)
C18_WriteUnderNameOfArgumentNode ==
    [][ /\ \A call \in Passes \ {PassLambdaCall} :
              Starts(call) =>
                  /\ pc' = "main"
                  /\ variable_scope_list' =
                         << Put(variable_scope_list[1], NodeName(call.args[1]), IntV(2)) >>
        /\ Starts(PassLambdaCall) =>
              IF Get(variable_scope_list[1], "g").t = "lambda"
              THEN /\ pc' = "main"
                   /\ variable_scope_list' = << Put(variable_scope_list[1], "g", IntV(2)) >>
              ELSE FailsWith("TYPE_ERROR")
        /\ Starts(PrintField) => output' = Append(output, "1")
      ]_vars

C18_LambdaReplaced ==
    /\ Ran(PassLambdaCall)
    /\ Get(variable_scope_list[1], "g") = IntV(2)

C18_BoundUnderNoName ==
    /\ Ran(PassLiteral)
    /\ Get(variable_scope_list[1], NoName) = IntV(2)

-----------------------------------------------------------------------------
(* Proto fields: main assigns values of every type to o.proto, copies a    *)
(* proto field from one object to another, and calls a method of o that    *)
(* assigns an integer to this.proto.                                       *)
TableProtoSet ==
    << Func("fn", <<>>, <<>>),
       Func("taint", <<>>, <<Assign("this.proto", IntLit(7))>>) >>

PreludeProtoSet == << Assign("o", New), Assign("p", New) >>
SetProto(expression) == Assign("o.proto", expression)
NotObjects == {IntLit(1), StrLit("s"), BoolLit(TRUE), Lambda(<<>>, <<>>), Var("fn")}
SetMethod == Assign("o.m", Var("taint"))
CallMethod == MCall("o", "m", <<>>)
CopyProto == Assign("p.proto", Var("o.proto"))
AlphabetProtoSet ==
    << SetProto(Var("p")), SetProto(NilLit), SetProto(IntLit(1)), SetProto(StrLit("s")),
       SetProto(BoolLit(TRUE)), SetProto(Lambda(<<>>, <<>>)), SetProto(Var("fn")),
       SetMethod, CallMethod, CopyProto >>
InitProtoSet == InitRun(Programs(TableProtoSet, PreludeProtoSet, AlphabetProtoSet))
SpecProtoSet == InitProtoSet /\ [][Next]_vars

ProtoIsObjectOrNil ==
    \A id \in 1..Len(heap) :
        heap[id].kind = "obj" /\ Has(heap[id].fields, "proto") =>
            Get(heap[id].fields, "proto").t \in {"obj", "nil"}

HeapKept == \A id \in 1..Len(heap) : heap'[id] = heap[id]

(* C19: the proto field of every Object, where it has one, holds an Object *)
(* or Nil in every state, and an assignment of a value of another type to  *)
(* o.proto, or to this.proto in a method of o, fails with TYPE_ERROR and   *)
(* leaves every Object as it was.                                          *)
C19_ProtoHoldsObjectOrNil ==
    /\ []ProtoIsObjectOrNil
    /\ [][ /\ \A v \in NotObjects : Starts(SetProto(v)) => FailsWith("TYPE_ERROR") /\ HeapKept
           /\ Starts(CallMethod) /\ SetMethod \in Before(pos) =>
                  FailsWith("TYPE_ERROR") /\ HeapKept
         ]_vars

C19_ProtoKeptAfterError ==
    /\ Failed(SetProto(IntLit(1)), "TYPE_ERROR")
    /\ Has(heap[MainObject("o")].fields, "proto")
    /\ Get(heap[MainObject("o")].fields, "proto") = ObjV(MainObject("p"))

-----------------------------------------------------------------------------
(* Arities: a lambda and a function of one parameter, each held by a field *)
(* of o and by a variable of main, are called with no, one and two         *)
(* arguments.                                                              *)
TableArity == << Func("fn", <<Arg("v")>>, Says("fn")) >>

PreludeArity ==
    << Assign("o", New), Assign("o.m", Lambda(<<Arg("v")>>, Says("lambda"))),
       Assign("o.f", Var("fn")), Assign("l", Lambda(<<Arg("v")>>, Says("lambda"))),
       Assign("k", Var("fn")) >>

Ones(n) == [i \in 1..n |-> IntLit(1)]
LambdaMethod(n) == MCall("o", "m", Ones(n))
FunctionMethod(n) == MCall("o", "f", Ones(n))
LambdaVariable(n) == FCall("l", Ones(n))
FunctionVariable(n) == FCall("k", Ones(n))
AlphabetArity ==
    << LambdaMethod(0), LambdaMethod(1), LambdaMethod(2),
       FunctionMethod(0), FunctionMethod(1), FunctionMethod(2),
       LambdaVariable(0), LambdaVariable(1), LambdaVariable(2),
       FunctionVariable(0), FunctionVariable(1), FunctionVariable(2) >>
InitArity == InitRun(Programs(TableArity, PreludeArity, AlphabetArity))
SpecArity == InitArity /\ [][Next]_vars

(* C20: a call with no or two arguments of the one-parameter lambda or     *)
(* function fails with TYPE_ERROR, as a method of o as well as under a     *)
(* variable.                                                               *)
C20_MismatchIsTypeError ==
    [][ \A n \in {0, 2} :
            \A call \in {LambdaMethod(n), FunctionMethod(n), LambdaVariable(n),
                         FunctionVariable(n)} :
                Starts(call) => FailsWith("TYPE_ERROR") ]_vars

(* C20 as the code has it: the mismatched call of the lambda method fails  *)
(* with NAME_ERROR, the three others with TYPE_ERROR; a call with one      *)
(* argument runs the body.                                                 *)
C20_LambdaMethodMismatchIsNameError ==
    [][ /\ \A n \in {0, 2} :
              /\ Starts(LambdaMethod(n)) => FailsWith("NAME_ERROR")
              /\ \A call \in {FunctionMethod(n), LambdaVariable(n), FunctionVariable(n)} :
                     Starts(call) => FailsWith("TYPE_ERROR")
        /\ \A call \in {LambdaMethod(1), LambdaVariable(1)} :
              Starts(call) => pc' = "main" /\ output' = Append(output, "lambda")
        /\ \A call \in {FunctionMethod(1), FunctionVariable(1)} :
              Starts(call) => pc' = "main" /\ output' = Append(output, "fn")
      ]_vars

C20_LambdaMethodNameError == Failed(LambdaMethod(2), "NAME_ERROR")

-----------------------------------------------------------------------------
(* Logic: r = a && b and r = a || b, where a is a literal or a call that   *)
(* prints, and b is a call that prints and assigns main's n, or a string.  *)
TableLogic ==
    << Func("left", <<>>, Says("left") \o <<Return(BoolLit(FALSE))>>),
       Func("yes", <<>>, <<Assign("n", IntLit(1))>> \o Says("yes") \o <<Return(BoolLit(TRUE))>>),
       Func("no", <<>>, <<Assign("n", IntLit(2))>> \o Says("no") \o <<Return(BoolLit(FALSE))>>) >>

CallLeft == FCall("left", <<>>)
CallYes == FCall("yes", <<>>)
CallNo == FCall("no", <<>>)
AskI == FCall("inputi", <<StrLit("?")>>)
ReadI == FCall("inputi", <<>>)
ReadS == FCall("inputs", <<>>)
Logic(op, a, b) == Assign("r", Bin(op, a, b))
AlphabetLogic ==
    << Logic("&&", BoolLit(FALSE), CallYes), Logic("||", BoolLit(TRUE), CallNo),
       Logic("&&", IntLit(0), CallNo), Logic("||", IntLit(1), CallYes),
       Logic("&&", BoolLit(TRUE), CallYes), Logic("&&", CallLeft, CallYes),
       Logic("||", CallLeft, CallNo), Logic("&&", BoolLit(FALSE), StrLit("s")),
       Logic("&&", CallLeft, NilLit), Logic("&&", BoolLit(FALSE), AskI),
       Logic("||", BoolLit(TRUE), ReadI), Logic("&&", CallLeft, ReadS) >>

(* The input: a line for every statement of main, a numeral, a line that   *)
(* is no numeral and a zero in turn.                                       *)
Turn == <<"1", "x", "0">>
Lines(first) == [i \in 1..MaxMainLen |-> Turn[((first + i) % Len(Turn)) + 1]]
InitLogic ==
    InitRunReading(Programs(TableLogic, <<Assign("n", IntLit(0))>>, AlphabetLogic),
                   {Lines(first) : first \in 1..Len(Turn)})
SpecLogic == InitLogic /\ [][Next]_vars

(* What the operands of the family print, whether they read a line, what   *)
(* they assign to n and what they are worth.                               *)
Printed(operand) ==
    CASE operand = CallLeft -> <<"left">>
      [] operand = CallYes -> <<"yes">>
      [] operand = CallNo -> <<"no">>
      [] operand = AskI -> <<"?">>
      [] OTHER -> <<>>

Reads(operand) == operand \in {AskI, ReadI, ReadS}

Boolean(operand) ==
    \/ operand \in {CallYes, CallNo}
    \/ operand \in {AskI, ReadI} /\ Head(input) \in {"0", "1"}

Holds(operand) ==
    \/ operand \in {BoolLit(TRUE), IntLit(1), CallYes}
    \/ operand \in {AskI, ReadI} /\ Head(input) = "1"

AssignsN(operand) ==
    CASE operand = CallYes -> IntV(1)
      [] operand = CallNo -> IntV(2)
      [] OTHER -> Get(variable_scope_list[1], "n")

(* C21: both operands of && and of || are evaluated, the left one first,   *)
(* also when the left one decides the result: what the right operand       *)
(* prints is printed after what the left one prints, the line it reads is  *)
(* taken from the input, the n it assigns is main's n afterwards, and r is *)
(* the conjunction or disjunction of the two; a right operand that is a    *)
(* string or nil, or an inputi that reads no numeral, gives TYPE_ERROR     *)
(* whatever the left one is, after both have printed and read.             *)
C21_BothOperandsEvaluated ==
    [][ \A k \in 1..Len(AlphabetLogic) :
            Starts(AlphabetLogic[k]) =>
                LET e == AlphabetLogic[k].expression
                IN  /\ output' = output \o Printed(e.op1) \o Printed(e.op2)
                    /\ input' = IF Reads(e.op2) THEN Tail(input) ELSE input
                    /\ IF Boolean(e.op2)
                       THEN /\ pc' = "main"
                            /\ Get(variable_scope_list'[1], "n") = AssignsN(e.op2)
                            /\ Get(variable_scope_list'[1], "r") =
                                   BoolV(IF e.elem_type = "&&"
                                         THEN Holds(e.op1) /\ Holds(e.op2)
                                         ELSE Holds(e.op1) \/ Holds(e.op2))
                       ELSE FailsWith("TYPE_ERROR")
      ]_vars

C21_RightRanAfterLeftDecided ==
    /\ Ran(Logic("&&", BoolLit(FALSE), CallYes))
    /\ Last(output) = "yes"
    /\ Get(variable_scope_list[1], "n") = IntV(1)
    /\ Get(variable_scope_list[1], "r") = BoolV(FALSE)
    /\ \E k \in 1..(pos - 2) : /\ MainBody[k] = Logic("||", BoolLit(TRUE), ReadI)
                               /\ Len(input) < MaxMainLen

-----------------------------------------------------------------------------
(* Assignments to captured names: l counts in its captured x, m prints its *)
(* captured x, puts a lambda into its captured a and assigns 2 to its      *)
(* captured x; l is also handed to a value parameter and to a reference    *)
(* parameter and called there.                                             *)
TableSnapshot ==
    << Func("byvalue", <<Arg("g")>>, <<FCall("g", <<>>)>>),
       Func("byref", <<RefArg("g")>>, <<FCall("g", <<>>)>>) >>

Counter == <<Assign("x", Bin("+", Var("x"), IntLit(1))), PrintCall(<<Var("x")>>)>>
Stale == <<PrintCall(<<Var("x")>>), Assign("a", Lambda(<<>>, <<>>)), Assign("x", IntLit(2))>>
PreludeSnapshot ==
    <<Assign("a", IntLit(0)), SetX0, MakeL(Counter), Assign("m", Lambda(<<>>, Stale))>>
ByValueL == FCall("byvalue", <<Var("l")>>)
ByRefL == FCall("byref", <<Var("l")>>)
CallM == FCall("m", <<>>)
AlphabetSnapshot == <<CallReader, ByValueL, ByRefL, CallM, SetX1, PrintCall(<<Var("x")>>)>>
InitSnapshot == InitRun(Programs(TableSnapshot, PreludeSnapshot, AlphabetSnapshot))
SpecSnapshot == InitSnapshot /\ [][Next]_vars

(* The lambda m of main, the x the lambda l has captured, and the x a read *)
(* in m gives: the x of the lambda in m's captured a once there is one.    *)
LambdaM == heap[Get(variable_scope_list[1], "m").v]
CountL == Get(LambdaL.fields, "x").v
ReadByM ==
    LET a == Get(LambdaM.fields, "a")
    IN  IF a.t = "lambda" THEN Get(heap[a.v].fields, "x") ELSE Get(LambdaM.fields, "x")

(* C22: an assignment to a captured name in the top-level body of a lambda *)
(* leaves both stacks as they are, and a later call of the same lambda     *)
(* reads the value assigned: once m has assigned 2 to its captured x, the  *)
(* next call of m prints 2.                                                *)
C22_LaterCallReadsAssigned ==
    [][ /\ \A call \in {CallReader, ByValueL, ByRefL, CallM} :
               Starts(call) => /\ variable_scope_list' = variable_scope_list
                               /\ variable_alias_list' = variable_alias_list
        /\ Starts(CallM) /\ Get(LambdaM.fields, "x") = IntV(2) =>
               output' = output \o <<"2">>
      ]_vars

(* C22 as the code has it: the assignment writes the captured x only, a    *)
(* call of l or of l through a reference parameter counts on in l's x, a   *)
(* call of the copy a value parameter holds counts from l's x and leaves   *)
(* l as it was, and the x m reads is the one of the lambda in its captured *)
(* a, main's x when that lambda was made, whatever m has assigned.         *)
C22_SnapshotWrittenNestedRead ==
    [][ /\ \A call \in {CallReader, ByValueL, ByRefL, CallM} :
               Starts(call) => /\ variable_scope_list' = variable_scope_list
                               /\ variable_alias_list' = variable_alias_list
        /\ \A call \in {CallReader, ByRefL} :
               Starts(call) => /\ CountL' = CountL + 1
                               /\ output' = output \o <<ToString(CountL + 1)>>
        /\ Starts(ByValueL) => /\ LambdaL' = LambdaL
                               /\ output' = output \o <<ToString(CountL + 1)>>
        /\ Starts(CallM) => /\ Get(LambdaM.fields, "x")' = IntV(2)
                            /\ ReadByM' = Get(variable_scope_list[1], "x")
                            /\ output' = output \o <<get_printable(ReadByM)>>
      ]_vars

C22_SecondCallReadMainsX ==
    /\ Ran(CallM)
    /\ MainBody[pos - 2] = CallM
    /\ Get(LambdaM.fields, "x") = IntV(2)
    /\ Tail2(output) = <<"0", "0">>

====
